---- MODULE Spec2Model ----
(***************************************************************************)
(* Model of the devopsys orchestration engine: the dispatch loop, the      *)
(* python refinement loop, the project materializer, the finalizer         *)
(* (orchestrator.py), project root allocation and project file writing     *)
(* (orchestrator.py, project_builder.py) and the verification engine       *)
(* (agents/verifier.py).                                                    *)
(***************************************************************************)
EXTENDS Integers, Sequences, FiniteSets, TLC

VARIABLES
    \* ---- one orchestration run (MultiAgentOrchestrator.execute) ----
    pc,              \* position of execute()
    task,            \* the task text, as the set of keywords it contains
    forced_agent,    \* forced_agent argument ("" = None)
    cfg,             \* which model factories return DummyModel
    planned,         \* what planner.plan returned, <<>> when it was not called
    plan,            \* the plan that is dispatched
    step_idx,        \* index of the plan step the dispatch loop is at
    executions,      \* the execution trace
    project_summary, \* summary AgentResult of the Materializer, or NoResult
    final,           \* final AgentResult, or NoResult
    attempts,        \* _review_and_refine_python: local list of StepExecutions
    attempt_idx,     \* _review_and_refine_python: loop counter
    current_result,  \* _review_and_refine_python: current artifact
    proj,            \* _execute_project_plan: locals (files, index, steps)
    logger,          \* on_agent_error and on_final calls received by the observer
    failed,          \* the call whose exception left execute(), "" when none
    verified,        \* the code handed to each verifier.run call, by trace position
    \* ---- project root allocation (_allocate_project_root) ----
    dirs,            \* candidate names existing in the base directory
    apc,             \* per caller: position inside _allocate_project_root
    aidx,            \* per caller: candidate index being tried
    apre,            \* per caller: directory content when the call started
    aret,            \* sequence of returned candidates, in return order
    \* ---- project file writing (_write_project_file) ----
    wpath,           \* ProjectFileSpec.path of the file being written
    wstatus,         \* outcome of the call
    fsdirs,          \* directories existing on the filesystem
    fsfiles,         \* files existing on the filesystem
    \* ---- one verification call (VerifierAgent.run) ----
    vpc,             \* position of VerifierAgent.run
    vin,             \* inputs of the call (mode, filename, task, code, judgment)
    vreport,         \* ExecutionReport
    voutcome,        \* outcome dict (the Verdict)
    \* ---- one call of a planning function (plan, _prune_plan, classify) ----
    ppc,             \* position of the call
    pin,             \* its arguments
    pout             \* its return value

mainVars  == <<pc, task, forced_agent, cfg, planned, plan, step_idx, executions,
               project_summary, final, attempts, attempt_idx, current_result,
               proj, logger, failed, verified>>
allocVars == <<dirs, apc, aidx, apre, aret>>
writeVars == <<wpath, wstatus, fsdirs, fsfiles>>
verVars   == <<vpc, vin, vreport, voutcome>>
planVars  == <<ppc, pin, pout>>
vars      == <<mainVars, allocVars, writeVars, verVars, planVars>>

(***************************************************************************)
(* Bounds of the model.                                                    *)
(***************************************************************************)
MaxPlan   == 2   \* longest plan the planner backend returns
MaxFiles  == 2   \* most files in a project plan
MaxSuffix == 4   \* largest candidate suffix tried by the allocation
MaxCalls  == 3   \* allocation calls made in total
NumRuns   == 2   \* orchestration runs sharing the base directory
MaxPathLen == 4  \* longest ProjectFileSpec.path, in tokens
MaxPruneLen == 3 \* longest plan handed to _prune_plan on its own
MaxPlaceholders == 1 \* python generations of a run that yield the placeholder

(***************************************************************************)
(* Text.  A text is a sequence of tokens; whitespace tokens are explicit   *)
(* so that strip()/rstrip() do what they do in the code.                   *)
(***************************************************************************)
Tok(t, n) == [t |-> t, n |-> n]
NL == Tok("nl", 0)
IsSpace(tok) == tok.t \in {"nl", "sp"}

RECURSIVE RStrip(_)
RStrip(s) ==
    IF s = <<>> THEN s
    ELSE IF IsSpace(s[Len(s)]) THEN RStrip(SubSeq(s, 1, Len(s) - 1))
    ELSE s

RECURSIVE LStrip(_)
LStrip(s) ==
    IF s = <<>> THEN s
    ELSE IF IsSpace(s[1]) THEN LStrip(Tail(s))
    ELSE s

StripText(s) == LStrip(RStrip(s))

NoFile == "<none>"
NoResult == [text |-> <<Tok("<no result>", 0)>>, filename |-> "<no result>"]
AgentResult(text, filename) == [text |-> text, filename |-> filename]

(***************************************************************************)
(* JSON objects as texts: "{" field tokens "}".                            *)
(* The "ok" field carries 0 (false), 1 (true), 2 ("yes"), 3 ("no"), or 4   *)
(* and 5 for values of other types that bool() takes as true and false.    *)
(***************************************************************************)
JsonFieldNames == {"ok", "reason", "file", "entry"}

FirstIdx(s, t) ==
    IF \E i \in 1..Len(s) : s[i].t = t
    THEN CHOOSE i \in 1..Len(s) : s[i].t = t /\ \A j \in 1..(i - 1) : s[j].t # t
    ELSE 0

LastIdx(s, t) ==
    IF \E i \in 1..Len(s) : s[i].t = t
    THEN CHOOSE i \in 1..Len(s) : s[i].t = t /\ \A j \in (i + 1)..Len(s) : s[j].t # t
    ELSE 0

\* re.search(r"\{.*\}", text, re.DOTALL); candidate = match or text
JsonCandidate(raw) ==
    LET text == StripText(raw)
        a == FirstIdx(text, "{")
        b == LastIdx(text, "}")
    IN IF a > 0 /\ b > a THEN SubSeq(text, a, b) ELSE text

\* json.loads succeeds with a dict
IsJsonObject(c) ==
    /\ Len(c) >= 2
    /\ c[1].t = "{"
    /\ c[Len(c)].t = "}"
    /\ \A i \in 2..(Len(c) - 1) : c[i].t \in JsonFieldNames

HasField(c, name) == \E i \in 2..(Len(c) - 1) : c[i].t = name
GetField(c, name) == c[LastIdx(c, name)].n

Missing == -1
\* a parsed dict: the value of each field, Missing when absent
Dict(ok, reason) == [ok |-> ok, reason |-> reason]
EmptyDict == Dict(Missing, Missing)

LoadDict(c) ==
    Dict(IF HasField(c, "ok") THEN GetField(c, "ok") ELSE Missing,
         IF HasField(c, "reason") THEN GetField(c, "reason") ELSE Missing)

\* json.dumps(outcome) of the verifier
DumpVerdict(ok, reason) ==
    <<Tok("{", 0), Tok("ok", IF ok THEN 1 ELSE 0), Tok("reason", reason), Tok("}", 0)>>

\* MultiAgentOrchestrator._parse_verifier_payload / _finalize._parse_verdict
ParseVerdict(raw) ==
    LET c == JsonCandidate(raw) IN
    IF IsJsonObject(c) THEN LoadDict(c) ELSE EmptyDict

ReviewParseError == Dict(0, 0)
\* _review_and_refine_python._parse_review
ParseReview(raw) ==
    LET c == JsonCandidate(raw) IN
    IF IsJsonObject(c) /\ HasField(c, "ok") THEN LoadDict(c) ELSE ReviewParseError

\* ok = bool(ok_value) if isinstance(ok_value, bool) else str(ok_value)... in {"true","1","yes"}
LoopOk(outcome) == outcome.ok \in {1, 2}

(***************************************************************************)
(* Capability registry, Router, plan building.                             *)
(***************************************************************************)
AGENT_REGISTRY ==
    {"docker", "python", "rust", "bash", "linux", "verifier",
     "project_architect", "universal"}

\* keywords a task text may contain
TaskWords == {"matplotlib", "dockerfile", "project"}

\* table order of router.KEYWORDS
RouterOrder == <<"docker", "python", "rust", "bash", "linux", "project_architect">>

\* words a text handed to the Router may contain; a text is a set of words
RouterWords ==
    {"dockerfile", "docker", "container", "python", "matplotlib",
     "pyproject.toml", "rust", "bash", "shell", "cron", "ubuntu", "project",
     "scaffold", "structure", "readme.md", "module", "src"}

\* a pattern of router.KEYWORDS: the capability and its index in the list
Pattern(agent, idx) == <<agent, idx>>

\* the patterns of KEYWORDS that re.search finds in a word
WordMatches(w) ==
    CASE w = "dockerfile" -> {Pattern("docker", 1)}
      [] w = "docker" -> {Pattern("docker", 2)}
      [] w = "container" -> {Pattern("docker", 3)}
      [] w = "python" -> {Pattern("python", 1)}
      [] w = "pyproject.toml" -> {Pattern("python", 3), Pattern("project_architect", 4)}
      [] w = "matplotlib" -> {Pattern("python", 4)}
      [] w = "rust" -> {Pattern("rust", 1)}
      [] w = "bash" -> {Pattern("bash", 1)}
      [] w = "shell" -> {Pattern("bash", 2)}
      [] w = "cron" -> {Pattern("bash", 4)}
      [] w = "ubuntu" -> {Pattern("linux", 1)}
      [] w = "project" -> {Pattern("project_architect", 1)}
      [] w = "scaffold" -> {Pattern("project_architect", 2)}
      [] w = "structure" -> {Pattern("project_architect", 3)}
      [] w = "readme.md" -> {Pattern("project_architect", 5)}
      [] w = "module" -> {Pattern("project_architect", 6)}
      [] w = "src" -> {Pattern("project_architect", 7)}
      [] OTHER -> {}

\* number of patterns of the agent matching the text
Hits(agent, text) ==
    Cardinality({pat \in UNION {WordMatches(w) : w \in text} : pat[1] = agent})

Reason(kind, k) == [kind |-> kind, k |-> k]
Route(agent, score, reason) == [agent |-> agent, score |-> score, reason |-> reason]

BetterOrEqual(score, best) == best.agent = "" \/ score >= best.score
\* "(best is None) or (score > best.score)"
Better(score, best) == best.agent = "" \/ score > best.score

RECURSIVE ClassifyFrom(_, _, _)
ClassifyFrom(i, best, text) ==
    IF i > Len(RouterOrder) THEN best
    ELSE LET agent == RouterOrder[i]
             hits  == Hits(agent, text)
             extra == IF agent = "docker" /\ "dockerfile" \in text THEN 5 ELSE 0
             score == hits + extra
         IN IF hits > 0 /\ Better(score, best)
            THEN ClassifyFrom(i + 1, Route(agent, score, Reason("matched", hits)), text)
            ELSE ClassifyFrom(i + 1, best, text)

Classify(text) ==
    LET best == ClassifyFrom(1, Route("", 0, Reason("", 0)), text) IN
    IF best.agent = "" THEN Route("python", 0, Reason("fallback to python", 0)) ELSE best

PlanStep(agent, instruction, reason) ==
    [agent |-> agent, instruction |-> instruction, reason |-> reason]
StepExecution(step, result) == [step |-> step, result |-> result]

ExtendReplacing(execs, more) == more
\* executions.extend(extra_execs), executions.extend(project_steps)
Extend(execs, more) == execs \o more

FallbackPlan(text) ==
    LET route == Classify(text) IN <<PlanStep(route.agent, "task", route.reason)>>

\* LeadAgent._parse_plan on the decoded plan items: unregistered agents dropped
ParsePlan(raw) == SelectSeq(raw, LAMBDA item : item.agent \in AGENT_REGISTRY)

LeadAgentPlan(text, raw, planner_dummy) ==
    IF planner_dummy THEN FallbackPlan(text)
    ELSE LET steps == ParsePlan(raw) IN
         IF steps = <<>> THEN FallbackPlan(text) ELSE steps

RECURSIVE FirstPerAgent(_, _, _)
\* the steps of s whose agent satisfies want and is not in seen, first of each agent
FirstPerAgent(s, seen, only) ==
    IF s = <<>> THEN <<>>
    ELSE LET st == Head(s) IN
         IF st.agent \notin seen /\ (only = "" \/ st.agent = only)
         THEN <<st>> \o FirstPerAgent(Tail(s), seen \cup {st.agent}, only)
         ELSE FirstPerAgent(Tail(s), seen, only)

PrunePlanNoReorder(p, text) == FirstPerAgent(p, {}, "")
\* MultiAgentOrchestrator._prune_plan
PrunePlan(p, text) ==
    IF p = <<>> THEN p
    ELSE LET route == Classify(text)
             docker_steps == SelectSeq(p, LAMBDA st : st.agent = "docker")
             lead == FirstPerAgent(p, {}, route.agent)
             seen == {lead[i].agent : i \in 1..Len(lead)}
         IN IF route.agent = "docker" /\ docker_steps # <<>> THEN docker_steps
            ELSE lead \o FirstPerAgent(p, seen, "")

\* the words holding one of the hints of _looks_like_project_request
ProjectHintWords == {"project", "pyproject.toml", "readme.md", "module"}

LooksLikeProjectRequest(text) == text \cap ProjectHintWords # {}

EnsureProjectPlan(text, p) ==
    IF \E i \in 1..Len(p) : p[i].agent = "project_architect" THEN p
    ELSE IF ~LooksLikeProjectRequest(text) THEN p
    ELSE <<PlanStep("project_architect", "task", Reason("auto project generation", 0))>>

\* execute(): lines building the plan
BuildPlan(text, forced, raw, planner_dummy) ==
    LET p == IF forced # ""
             THEN <<PlanStep(forced, "task", Reason("forced by user", 0))>>
             ELSE EnsureProjectPlan(text, PrunePlan(LeadAgentPlan(text, raw, planner_dummy), text))
    IN IF p = <<>> THEN FallbackPlan(text) ELSE p

\* agent names the planner backend (or the user, with forced_agent) may name
PlanAgents == {"docker", "python", "verifier", "project_architect", "ghost"}

RECURSIVE SeqsUpTo(_, _)
SeqsUpTo(S, n) ==
    IF n = 0 THEN {<<>>}
    ELSE LET shorter == SeqsUpTo(S, n - 1) IN
         shorter \cup {Append(s, x) : s \in {t \in shorter : Len(t) = n - 1}, x \in S}

RawPlans ==
    SeqsUpTo({PlanStep(a, "planned", Reason("planned", 0)) : a \in PlanAgents}, MaxPlan)

(***************************************************************************)
(* Paths.  A path string is a sequence of tokens: names, "..", and the     *)
(* separators "/" and "\".                                                  *)
(***************************************************************************)
PathAlphabet == {"main.py", "..", "/", "\\", "proj"}

\* ProjectFileSpec.normalized_path: backslashes become slashes
NormalizedPath(path) ==
    [i \in 1..Len(path) |-> IF path[i] = "\\" THEN "/" ELSE path[i]]

RECURSIVE SplitFrom(_, _)
\* the components of a path string: maximal runs of non-"/" tokens
SplitFrom(s, cur) ==
    IF s = <<>> THEN (IF cur = <<>> THEN <<>> ELSE <<cur>>)
    ELSE IF Head(s) = "/"
         THEN (IF cur = <<>> THEN <<>> ELSE <<cur>>) \o SplitFrom(Tail(s), <<>>)
         ELSE SplitFrom(Tail(s), Append(cur, Head(s)))

PathParts(s) == SplitFrom(s, <<>>)
IsAbsolute(s) == s # <<>> /\ s[1] = "/"

RECURSIVE ResolveFrom(_, _)
\* Path.resolve(): ".." components are collapsed, staying at "/" at the top
ResolveFrom(base, parts) ==
    IF parts = <<>> THEN base
    ELSE IF Head(parts) = <<"..">>
         THEN ResolveFrom(IF base = <<>> THEN base ELSE SubSeq(base, 1, Len(base) - 1),
                          Tail(parts))
         ELSE ResolveFrom(Append(base, Head(parts)), Tail(parts))

\* (root_resolved / relative).resolve()
TargetOf(root, path) ==
    LET s == NormalizedPath(path) IN
    ResolveFrom(IF IsAbsolute(s) THEN <<>> ELSE root, PathParts(s))

RelativeToUnchecked(target, root) == TRUE
\* target.relative_to(root_resolved) does not raise
RelativeTo(target, root) ==
    /\ Len(target) >= Len(root)
    /\ SubSeq(target, 1, Len(root)) = root

ProjectRoot == <<(<<"base">>), (<<"proj">>)>>

(***************************************************************************)
(* Capability invocations.  The generated content is an input: each agent  *)
(* returns one of a few artifacts, tagged with the position it will take   *)
(* in the trace so that artifacts of different steps differ.               *)
(***************************************************************************)
\* PythonAgent.postprocess: valid code gets "script.py", the placeholder none
PythonOutputs(tag, dummy, may_fail) ==
    IF dummy THEN {AgentResult(<<Tok("dummy", tag), NL>>, "script.py")}
    ELSE {AgentResult(<<Tok("code", tag), NL>>, "script.py")} \cup
         (IF may_fail THEN {AgentResult(<<Tok("placeholder", tag), NL>>, NoFile)} ELSE {})

\* DockerAgent.postprocess: stripped text (possibly empty), "Dockerfile"
DockerOutputsUnnamed(tag) ==
    {AgentResult(<<Tok("code", tag)>>, NoFile), AgentResult(<<>>, NoFile)}
DockerOutputs(tag) ==
    {AgentResult(<<Tok("code", tag)>>, "Dockerfile"), AgentResult(<<>>, "Dockerfile")}

\* file kinds a project plan may list: 1 pyproject.toml, 2 main.py, 3 ../main.py
FileKinds == {1, 2, 3}
FilePath(kind) ==
    CASE kind = 1 -> <<"pyproject.toml">>
      [] kind = 2 -> <<"main.py">>
      [] OTHER    -> <<"..", "/", "main.py">>

\* ProjectArchitectAgent.postprocess: json.dumps of the normalized plan
ArchitectOutputs ==
    {AgentResult(<<Tok("{", 0)>> \o [i \in 1..Len(fs) |-> Tok("file", fs[i])] \o <<Tok("}", 0)>>,
                 NoFile) : fs \in SeqsUpTo(FileKinds, MaxFiles)}

\* VerifierAgent.run: json.dumps(outcome), ok always a bool
VerifierOutputs(tag) == {AgentResult(DumpVerdict(ok, tag), NoFile) : ok \in BOOLEAN}

\* UniversalAgent.postprocess: the cleaned text, filename = the path asked for
\* a manifest text may declare an entrypoint; the backend may answer nothing
UniversalOutputs(tag) ==
    {AgentResult(<<Tok("text", tag)>>, "path"),
     AgentResult(<<Tok("text", tag), NL, Tok("[project.scripts]", 0)>>, "path"),
     AgentResult(<<>>, "path")}

AgentOutputs(agent, tag, dummy, may_fail) ==
    CASE agent = "python" -> PythonOutputs(tag, dummy, may_fail)
      [] agent = "universal" -> UniversalOutputs(tag)
      [] agent = "verifier" -> VerifierOutputs(tag)
      [] agent = "project_architect" -> ArchitectOutputs
      [] OTHER -> DockerOutputs(tag)

VerifierAvailable == "verifier" \in AGENT_REGISTRY

\* _invoke_verifier: the StepExecutions it may return, <<>> standing for None
InvokeVerifier(instruction, code, reason, mode, tag) ==
    IF ~VerifierAvailable THEN {<<>>}
    ELSE IF mode # "project_runtime" /\ StripText(code) = <<>> THEN {<<>>}
    ELSE {<<StepExecution(PlanStep("verifier", instruction, Reason(reason, 0)), r)>> :
              r \in VerifierOutputs(tag)}

\* verifier.run(task=..., plan_context=..., workspace=code): the code of the
\* call that produced the verifier step at trace position at
VerifierCall(v, at, code) ==
    IF v = <<>> THEN <<>> ELSE <<[at |-> at, code |-> code]>>

\* build_workspace_snapshot(): the text execute() hands to every planned step
WorkspaceSnapshot == <<Tok("workspace", 0)>>

(***************************************************************************)
(* Finalizer.                                                              *)
(***************************************************************************)
IsVerifier(e) == e.step.agent = "verifier"

\* "for idx in range(below, -1, -1)": the last matching index up to below, or 0
LastIndexIn(matching, below) ==
    IF \E i \in 1..below : i \in matching
    THEN CHOOSE i \in 1..below : i \in matching /\ \A j \in (i + 1)..below : j \notin matching
    ELSE 0

VerifierNote == <<NL, NL, Tok("[verifier]", 0), NL>>

RECURSIVE Sections(_)
SectionsFirstOnly(s) ==
    IF s = <<>> THEN <<>>
    ELSE <<Tok("###", 0), Tok(Head(s).step.agent, 0), Tok("Reason:", Head(s).step.reason.k), NL>>
         \o StripText(Head(s).result.text) \o <<NL>>
\* _finalize: "for exec_step in executions: heading ... sections.append(...)"
Sections(s) ==
    IF s = <<>> THEN <<>>
    ELSE <<Tok("###", 0), Tok(Head(s).step.agent, 0), Tok("Reason:", Head(s).step.reason.k), NL>>
         \o StripText(Head(s).result.text) \o <<NL>> \o Sections(Tail(s))

\* index of the nearest non-verifier step before the last verifier step
CandidateIndexFirst(execs, last_verifier_idx) ==
    IF \E i \in 1..(last_verifier_idx - 1) : ~IsVerifier(execs[i])
    THEN CHOOSE i \in 1..(last_verifier_idx - 1) :
             ~IsVerifier(execs[i]) /\ \A j \in 1..(i - 1) : IsVerifier(execs[j])
    ELSE 0
CandidateIndex(execs, last_verifier_idx) ==
    LastIndexIn({i \in 1..Len(execs) : ~IsVerifier(execs[i])}, last_verifier_idx - 1)

\* candidate text followed by the "[verifier]" note carrying the verdict text
AnnotatedTextNoNote(candidate_text, verifier_text) == candidate_text
AnnotatedText(candidate_text, verifier_text) ==
    LET stripped == StripText(verifier_text) IN
    IF stripped # <<>> THEN RStrip(candidate_text) \o VerifierNote \o stripped
    ELSE candidate_text

\* _finalize below the project summary rule
FinalizeTrace(execs) ==
    IF Len(execs) = 1 THEN execs[1].result
    ELSE LET last_verifier_idx == LastIndexIn({i \in 1..Len(execs) : IsVerifier(execs[i])}, Len(execs)) IN
         IF last_verifier_idx # 0
         THEN LET verifier_result == execs[last_verifier_idx].result
                  verdict == ParseVerdict(verifier_result.text)
                  j == CandidateIndex(execs, last_verifier_idx)
              IN IF j = 0 THEN AgentResult(verifier_result.text, NoFile)
                 ELSE LET candidate_result == execs[j].result IN
                      IF verdict.ok = 1
                      THEN AgentResult(candidate_result.text, candidate_result.filename)
                      ELSE AgentResult(AnnotatedText(candidate_result.text, verifier_result.text),
                                       candidate_result.filename)
         ELSE LET k == LastIndexIn({i \in 1..Len(execs) : execs[i].step.agent = "python"}, Len(execs)) IN
              IF k # 0 THEN AgentResult(execs[k].result.text, NoFile)
              ELSE AgentResult(<<Tok("Task:", 0), NL>> \o StripText(Sections(execs)), NoFile)

FinalizeVerdictFirst(execs, summary) ==
    IF summary # NoResult /\ ~(\E i \in 1..Len(execs) : IsVerifier(execs[i]))
    THEN summary ELSE FinalizeTrace(execs)
Finalize(execs, summary) ==
    IF summary # NoResult THEN summary ELSE FinalizeTrace(execs)

(***************************************************************************)
(* One orchestration run: MultiAgentOrchestrator.execute.                  *)
(***************************************************************************)
IsPlaceholder(text) == text # <<>> /\ text[1].t = "placeholder"

NoProject == [files |-> <<>>, i |-> 0, steps |-> <<>>, written |-> <<>>]

AllocIdle ==
    /\ dirs = {} /\ apc = <<>> /\ aidx = <<>> /\ apre = <<>> /\ aret = <<>>
WriteIdle ==
    /\ wpath = <<>> /\ wstatus = "idle" /\ fsdirs = {} /\ fsfiles = {}
VerIdle ==
    /\ vpc = "idle" /\ vin = <<>> /\ vreport = <<>> /\ voutcome = <<>>
PlanIdle ==
    /\ ppc = "idle" /\ pin = <<>> /\ pout = <<>>

MainIdle ==
    /\ pc = "idle" /\ task = {} /\ forced_agent = "" /\ cfg = <<>>
    /\ planned = <<>> /\ plan = <<>> /\ step_idx = 0 /\ executions = <<>>
    /\ project_summary = NoResult /\ final = NoResult
    /\ attempts = <<>> /\ attempt_idx = 0 /\ current_result = NoResult
    /\ proj = NoProject
    /\ logger = <<>> /\ failed = "" /\ verified = <<>>

Init ==
    /\ pc = "plan"
    /\ task \in SUBSET TaskWords
    /\ forced_agent \in {""} \cup PlanAgents
    /\ cfg \in [agent_dummy : BOOLEAN, planner_dummy : BOOLEAN]
    /\ planned = <<>>
    /\ plan = <<>>
    /\ step_idx = 0
    /\ executions = <<>>
    /\ project_summary = NoResult
    /\ final = NoResult
    /\ attempts = <<>>
    /\ attempt_idx = 0
    /\ current_result = NoResult
    /\ proj = NoProject
    /\ logger = <<>>
    /\ failed = ""
    /\ verified = <<>>
    /\ AllocIdle /\ WriteIdle /\ VerIdle /\ PlanIdle

\* position the next StepExecution takes in the trace
NextTag == Len(executions) + Len(attempts) + Len(proj.steps) + 1

\* the python backend may still answer with text that is no python code
PlaceholderTags(s) ==
    {s[i].result.text[1].n : i \in {j \in 1..Len(s) : IsPlaceholder(s[j].result.text)}}
MayFail ==
    Cardinality(PlaceholderTags(executions) \cup PlaceholderTags(attempts)
                \cup PlaceholderTags(proj.steps)) < MaxPlaceholders

\* self.logger.on_agent_error(step, exc) and self.logger.on_final(final_result)
OnAgentError(agent) == [ev |-> "on_agent_error", agent |-> agent]
OnFinal == [ev |-> "on_final", agent |-> ""]

\* execute(): planning, pruning, project injection, fallback plan
Plan ==
    /\ pc = "plan"
    /\ \E raw \in RawPlans :
         /\ planned' = IF forced_agent # "" THEN <<>>
                       ELSE LeadAgentPlan(task, raw, cfg.planner_dummy)
         /\ plan' = BuildPlan(task, forced_agent, raw, cfg.planner_dummy)
    /\ step_idx' = 1
    /\ pc' = "dispatch"
    /\ UNCHANGED <<task, forced_agent, cfg, executions, project_summary, final,
                   attempts, attempt_idx, current_result, proj>>
    /\ UNCHANGED <<logger, failed, verified>>
    /\ UNCHANGED <<allocVars, writeVars, verVars, planVars>>

max_attempts == 6          \* default budget of _review_and_refine_python
matplotlib_max_attempts == 8

\* dynamic_max_attempts of _review_and_refine_python
DynamicMaxAttemptsOffByOne(text) ==
    (IF "matplotlib" \in text THEN matplotlib_max_attempts ELSE max_attempts) + 1
DynamicMaxAttempts(text) ==
    IF "matplotlib" \in text THEN matplotlib_max_attempts ELSE max_attempts

\* dispatch loop: a plan step whose capability is not registered is skipped
DispatchSkip ==
    /\ pc = "dispatch"
    /\ step_idx <= Len(plan)
    /\ plan[step_idx].agent \notin AGENT_REGISTRY
    /\ step_idx' = step_idx + 1
    /\ UNCHANGED <<pc, task, forced_agent, cfg, planned, plan, executions, project_summary,
                   final, attempts, attempt_idx, current_result, proj>>
    /\ UNCHANGED <<logger, failed, verified>>
    /\ UNCHANGED <<allocVars, writeVars, verVars, planVars>>

\* dispatch loop: agent.run raises; the error is logged and re-raised
DispatchRaise ==
    /\ pc = "dispatch"
    /\ step_idx <= Len(plan)
    /\ plan[step_idx].agent \in AGENT_REGISTRY
    /\ logger' = Append(logger, OnAgentError(plan[step_idx].agent))
    /\ failed' = "planned step"
    /\ pc' = "raised"
    /\ UNCHANGED <<task, forced_agent, cfg, planned, plan, step_idx, executions,
                   project_summary, final, attempts, attempt_idx, current_result, proj,
                   verified>>
    /\ UNCHANGED <<allocVars, writeVars, verVars, planVars>>

\* dispatch loop: one plan step of a registered capability
DispatchStep ==
    /\ pc = "dispatch"
    /\ step_idx <= Len(plan)
    /\ plan[step_idx].agent \in AGENT_REGISTRY
    /\ LET step == plan[step_idx]
           agent_dummy == IF step.agent = "python" THEN cfg.agent_dummy ELSE FALSE
       IN \E result \in AgentOutputs(step.agent, NextTag, agent_dummy, MayFail) :
            LET execs1 == Append(executions, StepExecution(step, result)) IN
            IF step.agent = "project_architect"
            THEN /\ executions' = execs1
                 /\ pc' = "project"
                 /\ UNCHANGED <<step_idx, attempts, attempt_idx, current_result, verified>>
            ELSE IF step.agent \notin {"python", "verifier"}
            THEN /\ \E v \in InvokeVerifier("task", result.text, "verification after agent",
                                            "auto", NextTag + 1) :
                        /\ executions' = execs1 \o v
                        /\ verified' = verified \o
                               VerifierCall(v, Len(execs1) + 1, result.text)
                 /\ step_idx' = step_idx + 1
                 /\ UNCHANGED <<pc, attempts, attempt_idx, current_result>>
            ELSE IF step.agent = "python" /\ ~agent_dummy /\ ~cfg.planner_dummy
            THEN /\ executions' = execs1
                 /\ pc' = "refine"
                 /\ attempts' = <<>>
                 /\ attempt_idx' = 1
                 /\ current_result' = result
                 /\ UNCHANGED <<step_idx, verified>>
            ELSE /\ executions' = execs1
                 /\ step_idx' = step_idx + 1
                 \* a planned verifier step runs on the workspace snapshot
                 /\ verified' = IF step.agent = "verifier"
                                THEN Append(verified, [at |-> Len(execs1),
                                                       code |-> WorkspaceSnapshot])
                                ELSE verified
                 /\ UNCHANGED <<pc, attempts, attempt_idx, current_result>>
    /\ UNCHANGED <<task, forced_agent, cfg, planned, plan, project_summary, final, proj>>
    /\ UNCHANGED <<logger, failed>>
    /\ UNCHANGED <<allocVars, writeVars, verVars, planVars>>

\* _static_python_audit: audit_ok, false when ast.parse raises SyntaxError;
\* of the texts PythonAgent returns only the placeholder prose does not parse
StaticPythonAudit(text) == ~IsPlaceholder(text)

\* the outcome when no verifier is registered: the failed audit, or the
\* plain generated review
ReviewOutcomes(text, tag) ==
    IF ~StaticPythonAudit(text) THEN {Dict(0, tag)}
    ELSE {ParseReview(DumpVerdict(ok, tag)) : ok \in BOOLEAN} \cup {ReviewParseError}

RefinedStep(k) == PlanStep("python", "refined", Reason("refinement attempt", k))

\* _review_and_refine_python: one iteration of the for loop
RefineAttempt ==
    /\ pc = "refine"
    /\ attempt_idx <= DynamicMaxAttempts(task)
    /\ \E v \in InvokeVerifier("task", current_result.text, "code compliance check",
                               "auto", NextTag) :
       \E outcome \in IF VerifierAvailable
                      THEN {IF v # <<>> THEN ParseReview(v[1].result.text) ELSE Dict(0, 0)}
                      ELSE ReviewOutcomes(current_result.text, NextTag) :
         LET attempts1 == attempts \o v IN
         /\ verified' = verified \o
                VerifierCall(v, Len(executions) + Len(attempts1), current_result.text)
         /\ IF LoopOk(outcome)
            THEN /\ attempts' = attempts1
                 /\ pc' = "refine_end"
                 /\ UNCHANGED <<attempt_idx, current_result, logger, failed>>
            ELSE \/ \E refined_result \in PythonOutputs(NextTag + Len(v), FALSE, MayFail) :
                      /\ attempts' = Append(attempts1,
                                            StepExecution(RefinedStep(attempt_idx), refined_result))
                      /\ current_result' = refined_result
                      /\ attempt_idx' = attempt_idx + 1
                      /\ pc' = IF attempt_idx + 1 > DynamicMaxAttempts(task)
                               THEN "refine_end" ELSE "refine"
                      /\ UNCHANGED <<logger, failed>>
                 \/ /\ pc' = "raised"      \* agent.run raises: logged and re-raised
                    /\ logger' = Append(logger, OnAgentError("python"))
                    /\ failed' = "refinement"
                    /\ attempts' = attempts1
                    /\ UNCHANGED <<attempt_idx, current_result>>
    /\ UNCHANGED <<task, forced_agent, cfg, planned, plan, step_idx, executions,
                   project_summary, final, proj>>
    /\ UNCHANGED <<allocVars, writeVars, verVars, planVars>>

\* needs_final of _review_and_refine_python
NeedsFinalAlways(atts) == TRUE
NeedsFinal(atts) ==
    ~(/\ atts # <<>>
      /\ atts[Len(atts)].step.agent = "verifier"
      /\ ParseReview(atts[Len(atts)].result.text).ok = 1)

\* _review_and_refine_python: the code after the loop, and the return
RefineEnd ==
    /\ pc = "refine_end"
    /\ \E v \in IF VerifierAvailable /\ NeedsFinal(attempts)
                THEN InvokeVerifier("task", current_result.text, "final verification",
                                    "auto", NextTag)
                ELSE {<<>>} :
         /\ attempts' = attempts \o v
         /\ executions' = Extend(executions, attempts \o v)
         /\ verified' = verified \o
                VerifierCall(v, Len(executions) + Len(attempts) + 1, current_result.text)
    /\ step_idx' = step_idx + 1
    /\ pc' = "dispatch"
    /\ UNCHANGED <<task, forced_agent, cfg, planned, plan, project_summary, final,
                   attempt_idx, current_result, proj>>
    /\ UNCHANGED <<logger, failed>>
    /\ UNCHANGED <<allocVars, writeVars, verVars, planVars>>

(***************************************************************************)
(* Project Materializer: _execute_project_plan.                            *)
(***************************************************************************)
\* ProjectSpec.from_json(...).files of the architect's text; not valid when
\* the text is empty or not a JSON object
ProjectFilesOfLenient(text) ==
    LET items == SelectSeq(StripText(text), LAMBDA tok : tok.t = "file") IN
    [valid |-> TRUE, files |-> [i \in 1..Len(items) |-> items[i].n]]
ProjectFilesOf(text) ==
    LET t == StripText(text) IN
    IF t = <<>> \/ ~IsJsonObject(t) THEN [valid |-> FALSE, files |-> <<>>]
    ELSE LET items == SelectSeq(t, LAMBDA tok : tok.t = "file") IN
         [valid |-> TRUE, files |-> [i \in 1..Len(items) |-> items[i].n]]

\* select_agent_for_file, by the extension of the path
SelectAgentForFile(kind) == IF kind = 1 THEN "universal" ELSE "python"

\* _execute_project_plan up to the allocation of the project root
ProjectStart ==
    /\ pc = "project"
    /\ LET spec == ProjectFilesOf(executions[Len(executions)].result.text) IN
       IF ~spec.valid \/ spec.files = <<>>
       THEN /\ pc' = "raised"
            /\ failed' = "project plan"
            /\ UNCHANGED proj
       ELSE /\ pc' = "project_file"
            /\ proj' = [files |-> spec.files, i |-> 1, steps |-> <<>>, written |-> <<>>]
            /\ UNCHANGED failed
    /\ UNCHANGED <<logger, verified>>
    /\ UNCHANGED <<task, forced_agent, cfg, planned, plan, step_idx, executions,
                   project_summary, final, attempts, attempt_idx, current_result>>
    /\ UNCHANGED <<allocVars, writeVars, verVars, planVars>>

\* _execute_project_plan: one iteration of the loop over spec.files
ProjectFile ==
    /\ pc = "project_file"
    /\ proj.i <= Len(proj.files)
    /\ LET kind == proj.files[proj.i]
           agent_name == SelectAgentForFile(kind)
           path == FilePath(kind)
           plan_step == PlanStep(agent_name, "file", Reason("project file", kind))
       IN \/ /\ pc' = "raised"      \* agent.run raises: logged and re-raised
             /\ logger' = Append(logger, OnAgentError(agent_name))
             /\ failed' = "project file"
             /\ UNCHANGED <<proj, verified>>
          \/ \E agent_result \in AgentOutputs(agent_name, NextTag, cfg.agent_dummy, MayFail) :
               IF ~RelativeTo(TargetOf(ProjectRoot, path), ProjectRoot)
               THEN /\ pc' = "raised"   \* path escapes project root
                    /\ failed' = "project write"
                    /\ UNCHANGED <<proj, logger, verified>>
               ELSE LET stored_result == AgentResult(agent_result.text, path[Len(path)])
                        steps1 == Append(proj.steps, StepExecution(plan_step, stored_result))
                    IN \E v \in InvokeVerifier("syntax check", stored_result.text,
                                               "syntax check", "syntax", NextTag + 1) :
                         /\ proj' = [proj EXCEPT !.steps = steps1 \o v, !.i = proj.i + 1,
                                                 !.written = Append(proj.written,
                                                                    TargetOf(ProjectRoot, path))]
                         /\ verified' = verified \o
                                VerifierCall(v, Len(executions) + Len(steps1) + 1,
                                             stored_result.text)
                         /\ UNCHANGED <<pc, logger, failed>>
    /\ UNCHANGED <<task, forced_agent, cfg, planned, plan, step_idx, executions,
                   project_summary, final, attempts, attempt_idx, current_result>>
    /\ UNCHANGED <<allocVars, writeVars, verVars, planVars>>

\* _maybe_create_uv_environment: nothing, or the "uv" StepExecution
EnvSteps(tag) ==
    {<<>>, <<StepExecution(PlanStep("uv", "uv venv .venv", Reason("create project virtualenv", 0)),
                           AgentResult(<<Tok("uv", tag)>>, NoFile))>>}

\* the generation step of a project file of the given kind
IsFileStep(e, kind) == e.step.reason = Reason("project file", kind)

\* _discover_entrypoint: the pyproject.toml last written declares a script
DiscoverEntrypoint(steps) ==
    LET manifests == {i \in 1..Len(steps) : IsFileStep(steps[i], 1)} IN
    /\ manifests # {}
    /\ LET text == steps[LastIndexIn(manifests, Len(steps))].result.text
       IN \E k \in 1..Len(text) : text[k].t = "[project.scripts]"

\* _maybe_run_project_runtime: nothing (no entrypoint), or the verifier step
RuntimeSteps(steps, tag) ==
    IF DiscoverEntrypoint(steps)
    THEN InvokeVerifier("run entrypoint", <<>>, "project runtime verification",
                        "project_runtime", tag)
    ELSE {<<>>}

\* _execute_project_plan after the loop, and the lines of execute() after it
ProjectFinish ==
    /\ pc = "project_file"
    /\ proj.i > Len(proj.files)
    /\ \E env \in EnvSteps(NextTag) :
       \E rt \in RuntimeSteps(proj.steps, NextTag + Len(env)) :
         LET project_steps == proj.steps \o env \o rt
             summary == AgentResult(<<Tok("summary", NextTag)>>, NoFile)
         IN /\ executions' = Extend(executions, project_steps)
            /\ proj' = [proj EXCEPT !.steps = project_steps]
            /\ project_summary' = summary
            /\ verified' = verified \o
                   VerifierCall(rt, Len(executions) + Len(project_steps), <<>>)
    /\ step_idx' = step_idx + 1
    /\ pc' = "dispatch"
    /\ UNCHANGED <<task, forced_agent, cfg, planned, plan, final, attempts, attempt_idx,
                   current_result>>
    /\ UNCHANGED <<logger, failed>>
    /\ UNCHANGED <<allocVars, writeVars, verVars, planVars>>

(***************************************************************************)
(* End of execute(): last-resort step and finalization.                    *)
(***************************************************************************)
FallbackStep == PlanStep("python", "task", Reason("fallback to python", 0))

\* "if not executions:"
NeedsFallbackNever(execs) == FALSE
NeedsFallback(execs) == execs = <<>>

\* execute(): "if not executions:" block
Fallback ==
    /\ pc = "dispatch"
    /\ step_idx > Len(plan)
    /\ NeedsFallback(executions)
    /\ \/ \E result \in PythonOutputs(NextTag, cfg.agent_dummy, MayFail) :
            /\ executions' = Append(executions, StepExecution(FallbackStep, result))
            /\ pc' = "finalize"
            /\ UNCHANGED failed
       \/ /\ pc' = "raised"           \* run raises: no handler around the call
          /\ failed' = "fallback"
          /\ UNCHANGED executions
    /\ UNCHANGED <<logger, verified>>
    /\ UNCHANGED <<task, forced_agent, cfg, planned, plan, step_idx, project_summary, final,
                   attempts, attempt_idx, current_result, proj>>
    /\ UNCHANGED <<allocVars, writeVars, verVars, planVars>>

\* execute(): _finalize and return
FinalizeRun ==
    /\ \/ pc = "finalize"
       \/ pc = "dispatch" /\ step_idx > Len(plan) /\ ~NeedsFallback(executions)
    /\ final' = Finalize(executions, project_summary)
    /\ logger' = Append(logger, OnFinal)
    /\ pc' = "done"
    /\ UNCHANGED <<failed, verified>>
    /\ UNCHANGED <<task, forced_agent, cfg, planned, plan, step_idx, executions,
                   project_summary, attempts, attempt_idx, current_result, proj>>
    /\ UNCHANGED <<allocVars, writeVars, verVars, planVars>>

\* the code of a step that _invoke_verifier would hand to the verifier
HasCode(agent, dummy) ==
    \E result \in AgentOutputs(agent, NextTag, dummy, MayFail) : StripText(result.text) # <<>>

\* a call site of _invoke_verifier is reached with the verifier registered and
\* verifier.run raises: the call has no handler, nothing is logged
InvokeVerifierRaises ==
    /\ VerifierAvailable
    /\ \/ /\ pc = "dispatch"
          /\ step_idx <= Len(plan)
          /\ plan[step_idx].agent \in AGENT_REGISTRY
          /\ plan[step_idx].agent \notin {"python", "verifier", "project_architect"}
          /\ HasCode(plan[step_idx].agent, FALSE)
       \/ /\ pc = "refine"
          /\ attempt_idx <= DynamicMaxAttempts(task)
          /\ StripText(current_result.text) # <<>>
       \/ /\ pc = "refine_end"
          /\ NeedsFinal(attempts)
          /\ StripText(current_result.text) # <<>>
       \/ /\ pc = "project_file"
          /\ proj.i <= Len(proj.files)
          /\ RelativeTo(TargetOf(ProjectRoot, FilePath(proj.files[proj.i])), ProjectRoot)
          /\ HasCode(SelectAgentForFile(proj.files[proj.i]), cfg.agent_dummy)
       \/ /\ pc = "project_file"
          /\ proj.i > Len(proj.files)
          /\ DiscoverEntrypoint(proj.steps)
    /\ pc' = "raised"
    /\ failed' = "verifier"
    /\ UNCHANGED <<task, forced_agent, cfg, planned, plan, step_idx, executions,
                   project_summary, final, attempts, attempt_idx, current_result,
                   proj, logger, verified>>
    /\ UNCHANGED <<allocVars, writeVars, verVars, planVars>>

Next ==
    \/ Plan
    \/ DispatchSkip
    \/ DispatchRaise
    \/ DispatchStep
    \/ RefineAttempt
    \/ RefineEnd
    \/ ProjectStart
    \/ ProjectFile
    \/ ProjectFinish
    \/ Fallback
    \/ InvokeVerifierRaises
    \/ FinalizeRun

Spec == Init /\ [][Next]_vars

(***************************************************************************)
(* Properties of the orchestration run.                                    *)
(***************************************************************************)
RegenIdx(s) ==
    {i \in 1..Len(s) : s[i].step.agent = "python"
                       /\ s[i].step.reason.kind = "refinement attempt"}
ClaimBudget == IF "matplotlib" \in task THEN 8 ELSE 6

VerdictOk(e) ==
    IsVerifier(e) /\ \E k \in 1..Len(e.result.text) : e.result.text[k] = Tok("ok", 1)

\* i is the last verifier step of s and j the nearest non-verifier step before it
LastVerifierAndCandidate(s, i, j) ==
    /\ IsVerifier(s[i])
    /\ \A m \in (i + 1)..Len(s) : ~IsVerifier(s[m])
    /\ j < i
    /\ ~IsVerifier(s[j])
    /\ \A m \in (j + 1)..(i - 1) : IsVerifier(s[m])

\* C1: the refinement loop appends at most N regeneration steps and no attempt
\* index exceeds N, N being 8 for a task naming matplotlib and 6 otherwise.
C1_RegenerationsWithinBudget ==
    \A s \in {attempts, executions} :
        /\ Cardinality(RegenIdx(s)) <= ClaimBudget
        /\ \A i \in RegenIdx(s) : s[i].step.reason.k \in 1..ClaimBudget

C1_Witness ==
    /\ pc = "done"
    /\ "matplotlib" \in task
    /\ Cardinality(RegenIdx(executions)) = 8

\* C2: a verifier step with ok=true is the last step the refinement loop
\* appends: no regeneration and no further verification follows it.
C2_LoopStopsAtOkVerdict ==
    \A i \in 1..Len(attempts) : VerdictOk(attempts[i]) => i = Len(attempts)

C2_Witness ==
    /\ pc = "done"
    /\ Len(attempts) >= 3
    /\ VerdictOk(attempts[Len(attempts)])

\* C7: without a project summary, when the last verifier step of a trace of
\* two or more steps has ok=true, the final artifact is the nearest preceding
\* non-verifier artifact, text and filename unchanged.
C7_PassingVerdictReturnsCandidate ==
    (pc = "done" /\ project_summary = NoResult /\ Len(executions) >= 2) =>
        \A i, j \in 1..Len(executions) :
            (LastVerifierAndCandidate(executions, i, j) /\ VerdictOk(executions[i]))
                => final = executions[j].result

C7_Witness ==
    /\ pc = "done" /\ project_summary = NoResult
    /\ \E i, j \in 1..Len(executions) :
         /\ LastVerifierAndCandidate(executions, i, j)
         /\ VerdictOk(executions[i])
         /\ j > 1
         /\ executions[j].result.filename = "script.py"

\* C8: when the budget is exhausted and the last verifier step has ok=false,
\* the final artifact is the candidate's text followed by a note that holds
\* the verdict's reason, under the candidate's filename.
C8_FailingVerdictAnnotatesCandidate ==
    (pc = "done" /\ project_summary = NoResult
     /\ Cardinality(RegenIdx(executions)) = ClaimBudget) =>
        \A i, j \in 1..Len(executions) :
            (LastVerifierAndCandidate(executions, i, j) /\ ~VerdictOk(executions[i])) =>
                LET c == executions[j].result.text
                    v == executions[i].result.text
                IN /\ final.filename = executions[j].result.filename
                   /\ Len(final.text) > Len(c)
                   /\ SubSeq(final.text, 1, Len(c)) = c
                   /\ \A k \in 1..Len(v) : v[k].t = "reason" =>
                          \E m \in (Len(c) + 1)..Len(final.text) : final.text[m] = v[k]

C8_Witness ==
    /\ pc = "done" /\ project_summary = NoResult
    /\ \E i, j \in 1..Len(executions) :
         /\ LastVerifierAndCandidate(executions, i, j)
         /\ ~VerdictOk(executions[i])
         /\ j \in RegenIdx(executions)
         /\ executions[j].step.reason.k = ClaimBudget

\* C9: when the Materializer produced a project summary, the final artifact
\* is that summary, whatever else the trace holds.
C9_SummaryIsFinal ==
    (pc = "done" /\ (project_summary # NoResult \/ proj.files # <<>>)) =>
        /\ final = project_summary
        /\ final.text[1].t = "summary"

C9_Witness ==
    /\ pc = "done" /\ project_summary # NoResult
    /\ \E i \in 1..Len(executions) : IsVerifier(executions[i]) /\ ~VerdictOk(executions[i])
    /\ executions[Len(executions)].step.reason.kind = "verification after agent"

\* C10: execute never returns an empty trace; when no plan step resolved, the
\* trace is exactly the one last-resort python step run on the raw task text.
C10_NeverEmptyTrace ==
    pc \in {"finalize", "done"} =>
        /\ executions # <<>>
        /\ (\A i \in 1..Len(plan) : plan[i].agent \notin AGENT_REGISTRY) =>
               /\ Len(executions) = 1
               /\ executions[1].step =
                      [agent |-> "python", instruction |-> "task",
                       reason |-> [kind |-> "fallback to python", k |-> 0]]

C10_Witness ==
    /\ pc = "done"
    /\ forced_agent = "ghost"
    /\ Len(executions) = 1

(***************************************************************************)
(* Project root allocation: _allocate_project_root, called by NumRuns      *)
(* orchestration runs with the same slug on the same base directory.       *)
(* Candidate 1 is <slug>, candidate k >= 2 is <slug>-k.                    *)
(***************************************************************************)
Runs == 1..NumRuns

\* "not candidate.exists()"
CandidateFreeAlways(existing, k) == TRUE
CandidateFree(existing, k) == k \notin existing

AllocInit ==
    /\ dirs \in SUBSET (1..2)
    /\ apc = [p \in Runs |-> "idle"]
    /\ aidx = [p \in Runs |-> 0]
    /\ apre = [p \in Runs |-> {}]
    /\ aret = <<>>
    /\ MainIdle /\ WriteIdle /\ VerIdle /\ PlanIdle

CallsStarted == Len(aret) + Cardinality({p \in Runs : apc[p] # "idle"})

\* entry of _allocate_project_root: base_dir.mkdir, candidate = base_dir / slug
AllocBegin(p) ==
    /\ apc[p] = "idle"
    /\ CallsStarted < MaxCalls
    /\ apc' = [apc EXCEPT ![p] = "check"]
    /\ aidx' = [aidx EXCEPT ![p] = 1]
    /\ apre' = [apre EXCEPT ![p] = dirs]
    /\ UNCHANGED <<dirs, aret>>
    /\ UNCHANGED <<mainVars, writeVars, verVars, planVars>>

\* the same, for runs that do not overlap in time
AllocBeginSeq(p) ==
    /\ \A q \in Runs : apc[q] = "idle"
    /\ AllocBegin(p)

\* "if not candidate.exists():" / "if not alt.exists():", else the next suffix
AllocCheck(p) ==
    /\ apc[p] = "check"
    /\ IF CandidateFree(dirs, aidx[p])
       THEN /\ apc' = [apc EXCEPT ![p] = "mkdir"]
            /\ UNCHANGED aidx
       ELSE /\ aidx[p] < MaxSuffix
            /\ aidx' = [aidx EXCEPT ![p] = aidx[p] + 1]
            /\ UNCHANGED apc
    /\ UNCHANGED <<dirs, apre, aret>>
    /\ UNCHANGED <<mainVars, writeVars, verVars, planVars>>

\* "candidate.mkdir(parents=True, exist_ok=True); return candidate"
AllocMkdir(p) ==
    /\ apc[p] = "mkdir"
    /\ dirs' = dirs \cup {aidx[p]}
    /\ aret' = Append(aret, [run |-> p, dir |-> aidx[p], pre |-> apre[p]])
    /\ apc' = [apc EXCEPT ![p] = "idle"]
    /\ UNCHANGED <<aidx, apre>>
    /\ UNCHANGED <<mainVars, writeVars, verVars, planVars>>

NextAlloc == \E p \in Runs : AllocBegin(p) \/ AllocCheck(p) \/ AllocMkdir(p)
NextAllocSeq == \E p \in Runs : AllocBeginSeq(p) \/ AllocCheck(p) \/ AllocMkdir(p)

SpecAlloc == AllocInit /\ [][NextAlloc]_vars
SpecAllocSeq == AllocInit /\ [][NextAllocSeq]_vars

\* C3: interleaved allocations with the same slug never return the same
\* directory.
C3_ConcurrentAllocationsDistinct ==
    \A i, j \in 1..Len(aret) : i # j => aret[i].dir # aret[j].dir

\* C4: in sequence, an allocation never returns a directory that existed
\* before the call; it returns the first unused candidate of <slug>,
\* <slug>-2, ..., and repeated calls return distinct, existing directories.
C4_SequentialAllocationFresh ==
    \A i \in 1..Len(aret) :
        /\ aret[i].dir \notin aret[i].pre
        /\ \A k \in 1..(aret[i].dir - 1) : k \in aret[i].pre
        /\ aret[i].dir \in dirs
        /\ \A j \in 1..Len(aret) : i # j => aret[i].dir # aret[j].dir

C4_Witness ==
    /\ Len(aret) >= 2
    /\ aret[1].pre = {}
    /\ aret[1].dir = 1
    /\ aret[2].dir = 2
    /\ {1, 2} \subseteq dirs

(***************************************************************************)
(* Project file writing: _write_project_file on the allocated root.       *)
(***************************************************************************)
Paths == SeqsUpTo(PathAlphabet, MaxPathLen) \ {<<>>}

FsRoot == <<>>
BaseDir == <<(<<"base">>)>>

WriteInit ==
    /\ wpath \in Paths
    /\ wstatus = "ready"
    /\ fsdirs = {FsRoot, BaseDir, ProjectRoot}
    /\ fsfiles \in SUBSET {Append(ProjectRoot, <<"main.py">>)}
    /\ MainIdle /\ AllocIdle /\ VerIdle /\ PlanIdle

Ancestors(target) == {SubSeq(target, 1, n) : n \in 0..(Len(target) - 1)}

\* _write_project_file(project_root, file_spec, content)
WriteProjectFile ==
    /\ wstatus = "ready"
    /\ LET target == TargetOf(ProjectRoot, wpath) IN
       IF ~RelativeTo(target, ProjectRoot)
       THEN /\ wstatus' = "escape_error"    \* RuntimeError: escapes project root
            /\ UNCHANGED <<fsdirs, fsfiles>>
       ELSE IF Ancestors(target) \cap fsfiles # {}
       THEN /\ wstatus' = "os_error"        \* ensure_directory: a parent is a file
            /\ UNCHANGED <<fsdirs, fsfiles>>
       ELSE IF target \in fsdirs
       THEN /\ wstatus' = "os_error"        \* write_text: target is a directory
            /\ fsdirs' = fsdirs \cup Ancestors(target)
            /\ UNCHANGED fsfiles
       ELSE /\ wstatus' = "written"
            /\ fsdirs' = fsdirs \cup Ancestors(target)
            /\ fsfiles' = fsfiles \cup {target}
    /\ UNCHANGED wpath
    /\ UNCHANGED <<mainVars, allocVars, verVars, planVars>>

SpecWrite == WriteInit /\ [][WriteProjectFile]_vars

InsideProjectRoot(path) ==
    Len(path) >= 2 /\ path[1] = <<"base">> /\ path[2] = <<"proj">>

\* a path that leaves the root at once and never names the root directory again
PlainlyOutside(path) ==
    /\ path[1] \in {"..", "/", "\\"}
    /\ \A i \in 1..Len(path) : path[i] # "proj"
    /\ \E i \in 1..Len(path) : path[i] \in {"..", "main.py"}
    /\ path[1] = ".." => (Len(path) = 1 \/ path[2] \in {"/", "\\"})

\* C5: a write whose path resolves outside the project root raises the
\* containment error with the filesystem untouched; nothing is ever created
\* or written outside the project root.
C5_EscapingWriteRaisesFirst ==
    [][(wstatus = "ready" /\ wstatus' # "ready") =>
          /\ \A f \in (fsfiles' \ fsfiles) \cup (fsdirs' \ fsdirs) : InsideProjectRoot(f)
          /\ PlainlyOutside(wpath) => wstatus' = "escape_error"
          /\ wstatus' = "escape_error" => (fsdirs' = fsdirs /\ fsfiles' = fsfiles)
      ]_vars

C5_Witness ==
    /\ wstatus = "escape_error"
    /\ wpath = <<"..", "\\", "main.py">>

(***************************************************************************)
(* The Verification Engine: VerifierAgent.run                              *)
(***************************************************************************)
VerifierModes == {"auto", "syntax", "project_runtime"}
Suffixes == {"", ".py", ".sh", ".toml"}
Shebangs == {"", "bash", "python"}
VerifierTaskWords == {"dockerfile", "bash", "python", "gpu"}
CodeFeatures == {"from", "def", "dollar1"}
ProjectMetas == {"none", "no_entrypoint", "ok"}

\* the inputs of one call
VerifierInput(mode, suffix, shebang, tk, code, project) ==
    [mode |-> mode, suffix |-> suffix, shebang |-> shebang, task |-> tk,
     code |-> code, project |-> project, raw |-> <<>>]

VerifierInputs ==
    {in \in {VerifierInput(m, sf, sb, tk, cd, "none") :
                m \in VerifierModes \ {"project_runtime"}, sf \in Suffixes,
                sb \in Shebangs, tk \in SUBSET VerifierTaskWords,
                cd \in SUBSET CodeFeatures} :
        \* the first line is a shebang or a FROM line, not both
        in.shebang = "" \/ "from" \notin in.code}
    \cup
    {VerifierInput("project_runtime", "", "", tk, {}, pm) :
        tk \in SUBSET {"gpu"}, pm \in ProjectMetas}

\* VerifierAgent._detect_language
DetectLanguage(in) ==
    IF in.suffix = ".py" THEN "python"
    ELSE IF in.suffix = ".sh" THEN "bash"
    ELSE IF in.suffix = ".toml" THEN "text"
    ELSE IF in.shebang = "bash" THEN "bash"
    ELSE IF in.shebang = "python" THEN "python"
    ELSE IF "dockerfile" \in in.task THEN "dockerfile"
    ELSE IF "from" \in in.code THEN "dockerfile"
    ELSE IF "bash" \in in.task THEN "bash"
    ELSE IF "python" \in in.task THEN "python"
    ELSE IF "def" \in in.code THEN "python"
    ELSE IF "dollar1" \in in.code THEN "bash"
    ELSE "unknown"

None == "None"
Returncodes == {"0", "1", "-9"}
NvidiaMissing == "nvidia-smi: not found"

ExecutionReport(language, mode, compilation_ok, compilation_error, stdout, stderr, returncode) ==
    [language |-> language, mode |-> mode, compilation_ok |-> compilation_ok,
     compilation_error |-> compilation_error, stdout |-> stdout,
     stderr |-> stderr, returncode |-> returncode]

\* the text kept from the exception of a child that could not be spawned
SpawnFailure(child) ==
    CASE child = "ruff" -> "ruff check failed: No such file"
      [] child = "uv" -> "Runtime failed: No such file"
      [] OTHER -> "Execution failed: No such file"
SpawnFailures == {SpawnFailure(child) : child \in {"ruff", "uv", "python", "bash"}}
TimeoutTexts == {"ruff check timed out", "Execution timed out", "Runtime timed out"}

\* what a completed subprocess may hand back
Completed ==
    [returncode : Returncodes, stdout : {"", "out"}, stderr : {"", NvidiaMissing}]

\* VerifierAgent._execute_python
ExecutePython(mode) ==
    \* compile() raises SyntaxError
    {ExecutionReport("python", mode, FALSE, "SyntaxError", "", "", None)}
    \cup
    (IF mode = "syntax"
     THEN \* ruff is not installed
          {ExecutionReport("python", mode, TRUE, None, "", "", None)}
          \cup
          {ExecutionReport("python", mode, c.returncode = "0",
                           IF c.returncode = "0" THEN None ELSE "ruff check failed",
                           c.stdout, c.stderr, c.returncode) : c \in Completed}
          \cup
          {ExecutionReport("python", mode, FALSE, "ruff check timed out", "",
                           "ruff check timed out", None)}
          \cup
          \* "except Exception": ruff could not be spawned
          {ExecutionReport("python", mode, FALSE, SpawnFailure("ruff"), "",
                           SpawnFailure("ruff"), None)}
     ELSE {ExecutionReport("python", mode, TRUE, None, c.stdout, c.stderr, c.returncode) :
              c \in Completed}
          \cup
          {ExecutionReport("python", mode, TRUE, None, "", "Execution timed out", None)}
          \cup
          \* "except Exception": the interpreter could not be spawned
          {ExecutionReport("python", mode, TRUE, None, "", SpawnFailure("python"), None)})

\* VerifierAgent._execute_bash, when "bash -n" could be spawned
ExecuteBash(mode) ==
    {ExecutionReport("bash", mode, FALSE, "bash -n failed", "", c.stderr, c.returncode) :
        c \in {d \in Completed : d.returncode # "0" /\ d.stdout = ""}}
    \cup
    (IF mode = "syntax"
     THEN {ExecutionReport("bash", mode, TRUE, None, "", "", None)}
     ELSE {ExecutionReport("bash", mode, TRUE, None, c.stdout, c.stderr, c.returncode) :
              c \in Completed}
          \cup
          {ExecutionReport("bash", mode, TRUE, None, "", "Execution timed out", None)}
          \cup
          \* "except Exception": bash could not be spawned for the run
          {ExecutionReport("bash", mode, TRUE, None, "", SpawnFailure("bash"), None)})

\* VerifierAgent._execute_project_runtime
ExecuteProjectRuntime(project) ==
    IF project = "none"
    THEN {ExecutionReport("project", "project_runtime", FALSE, "missing project metadata", "", "", None)}
    ELSE IF project = "no_entrypoint"
    THEN {ExecutionReport("project", "project_runtime", FALSE, "no entrypoint defined", "", "", None)}
    ELSE {ExecutionReport("project", "project_runtime", FALSE, "uv binary not found", "", "", None)}
         \cup
         {ExecutionReport("project", "project_runtime", TRUE, None, c.stdout, c.stderr, c.returncode) :
             c \in Completed}
         \cup
         {ExecutionReport("project", "project_runtime", FALSE, "Runtime timed out", "",
                          "Runtime timed out", None)}
         \cup
         \* "except Exception": uv could not be spawned
         {ExecutionReport("project", "project_runtime", FALSE, SpawnFailure("uv"), "",
                          SpawnFailure("uv"), None)}

\* VerifierAgent._execute
Execute(in) ==
    IF in.mode = "project_runtime" THEN ExecuteProjectRuntime(in.project)
    ELSE LET language == DetectLanguage(in) IN
         IF language = "python" THEN ExecutePython(in.mode)
         ELSE IF language = "bash" THEN ExecuteBash(in.mode)
         ELSE {ExecutionReport(language, in.mode, TRUE, None, "", "", None)}

\* model.complete(rendered): ok is false (0), true (1), "yes" (2), "no" (3),
\* a number, array or object that bool() takes as true (4) or as false (5)
RawJudgments ==
    {<<Tok("{", 0), Tok("ok", k), Tok("reason", 7), Tok("}", 0)>> : k \in 0..5}
    \cup
    {<<Tok("{", 0), Tok("reason", 7), Tok("}", 0)>>,
     <<Tok("prose", 0), NL, Tok("{", 0), Tok("ok", 1), Tok("}", 0), NL>>,
     <<Tok("prose", 0)>>,
     <<>>}

\* _build_outcome: the judged ok, from a bool, a string, or anything else
JudgedOkUnlessFalse(ok_raw) == ok_raw # 0
JudgedOk(ok_raw) == ok_raw \in {1, 2, 4}

\* _build_outcome: "if not report.compilation_ok"
CompileOverride(o, report) ==
    IF ~report.compilation_ok
    THEN [ok |-> FALSE, notes |-> Append(o.notes, report.compilation_error)]
    ELSE o

ScriptExitOverrideNoneOnly(o, report) ==
    IF /\ report.compilation_ok
       /\ report.language \in {"python", "bash"}
       /\ report.mode # "syntax"
       /\ report.returncode = None
    THEN [ok |-> FALSE, notes |-> Append(o.notes, "script did not complete execution")]
    ELSE o
\* _build_outcome: the exit of an executed python or bash script
ScriptExitOverride(o, report) ==
    IF report.compilation_ok /\ report.language \in {"python", "bash"} /\ report.mode # "syntax"
    THEN IF report.returncode = None
         THEN [ok |-> FALSE, notes |-> Append(o.notes, "script did not complete execution")]
         ELSE IF report.returncode # "0"
         THEN [ok |-> FALSE, notes |-> Append(o.notes, "script exited with code")]
         ELSE o
    ELSE o

\* _build_outcome: the exit of the project command
ProjectExitOverride(o, report) ==
    IF report.language = "project"
    THEN IF report.returncode = None
         THEN [ok |-> FALSE, notes |-> Append(o.notes, "project execution did not finish")]
         ELSE IF report.returncode # "0"
         THEN [ok |-> FALSE, notes |-> Append(o.notes, "project command exited with code")]
         ELSE o
    ELSE o

\* _build_outcome: the GPU heuristics
GpuOverride(o, report, tk) ==
    IF "gpu" \in tk
    THEN LET a == IF o.ok /\ report.stdout = ""
                  THEN [ok |-> FALSE, notes |-> Append(o.notes, "GPU output was empty")]
                  ELSE o
         IN IF report.stderr = NvidiaMissing
            THEN [ok |-> FALSE, notes |-> Append(a.notes, "nvidia-smi command is unavailable")]
            ELSE a
    ELSE o

\* VerifierAgent._build_outcome
BuildOutcome(raw, report, tk) ==
    LET c == JsonCandidate(raw)
        understood == IsJsonObject(c)
        data == IF understood THEN LoadDict(c) ELSE Dict(0, Missing)
        judged == [ok |-> JudgedOk(data.ok),
                   notes |-> IF ~understood THEN <<"verifier response not understood">>
                             ELSE IF data.reason = Missing THEN <<>>
                             ELSE <<"judged reason">>]
    IN GpuOverride(
         ProjectExitOverride(
           ScriptExitOverride(
             CompileOverride(judged, report), report), report), report, tk)

VerifyInit ==
    /\ vpc = "start"
    /\ vin \in VerifierInputs
    /\ vreport = <<>>
    /\ voutcome = <<>>
    /\ MainIdle /\ AllocIdle /\ WriteIdle /\ PlanIdle

\* run, up to the ExecutionReport
VerifierExecute ==
    /\ vpc = "start"
    /\ vreport' \in Execute(vin)
    /\ vpc' = "executed"
    /\ UNCHANGED <<vin, voutcome>>
    /\ UNCHANGED <<mainVars, allocVars, writeVars, planVars>>

\* run, when subprocess.run(["bash", "-n", ...]) itself raises
VerifierSpawnRaises ==
    /\ vpc = "start"
    /\ vin.mode # "project_runtime"
    /\ DetectLanguage(vin) = "bash"
    /\ vpc' = "raised"
    /\ UNCHANGED <<vin, vreport, voutcome>>
    /\ UNCHANGED <<mainVars, allocVars, writeVars, planVars>>

\* run, when the child of subprocess.run(["bash", "-n", ...]), which is given
\* no timeout, never exits
VerifierSyntaxCheckHangs ==
    /\ vpc = "start"
    /\ vin.mode # "project_runtime"
    /\ DetectLanguage(vin) = "bash"
    /\ vpc' = "hung"
    /\ UNCHANGED <<vin, vreport, voutcome>>
    /\ UNCHANGED <<mainVars, allocVars, writeVars, planVars>>

\* run, from model.complete to the returned Verdict
VerifierJudge ==
    /\ vpc = "executed"
    /\ \E raw \in RawJudgments :
          /\ vin' = [vin EXCEPT !.raw = raw]
          /\ voutcome' = BuildOutcome(raw, vreport, vin.task)
    /\ vpc' = "done"
    /\ UNCHANGED vreport
    /\ UNCHANGED <<mainVars, allocVars, writeVars, planVars>>

NextVerify ==
    VerifierExecute \/ VerifierSpawnRaises \/ VerifierSyntaxCheckHangs \/ VerifierJudge

SpecVerify == VerifyInit /\ [][NextVerify]_vars

\* C6: whatever the mode, the language and the generated judgment, a
\* returned Verdict has ok = false when the ExecutionReport has a failing
\* static check or a non-zero exit code.
C6_FailingReportForcesNotOk ==
    vpc = "done" =>
        ((~vreport.compilation_ok \/ vreport.returncode \notin {None, "0"})
            => ~voutcome.ok)

C6_Witness ==
    /\ vpc = "done"
    /\ vreport.compilation_ok
    /\ vreport.returncode = "1"
    /\ JudgedOk(ParseVerdict(vin.raw).ok)
    /\ ~voutcome.ok

(***************************************************************************)
(* Error reporting of the orchestration run.                               *)
(***************************************************************************)
\* the calls of a run that invoke a capability
InvocationFailures ==
    {"planned step", "project file", "refinement", "verifier", "fallback"}

\* C11: when a capability invocation fails, the observer has received
\* on_agent_error as its last event before the exception leaves execute, and
\* the run ends without on_final and without a result.
C11_FailuresReportedToObserver ==
    (pc = "raised" /\ failed \in InvocationFailures) =>
        /\ logger # <<>>
        /\ logger[Len(logger)].ev = "on_agent_error"
        /\ \A i \in 1..Len(logger) : logger[i].ev # "on_final"
        /\ final = NoResult

(***************************************************************************)
(* One call of Router.classify on a text over RouterWords.                 *)
(***************************************************************************)
RouterInit ==
    /\ ppc = "start"
    /\ pin \in [text : SUBSET RouterWords]
    /\ pout = <<>>
    /\ MainIdle /\ AllocIdle /\ WriteIdle /\ VerIdle

\* Router().classify(text)
ClassifyCall ==
    /\ ppc = "start"
    /\ pout' = Classify(pin.text)
    /\ ppc' = "done"
    /\ UNCHANGED pin
    /\ UNCHANGED <<mainVars, allocVars, writeVars, verVars>>

SpecRouter == RouterInit /\ [][ClassifyCall]_vars

\* the score the Router is to give a capability on a text
ExpectedScore(agent, text) ==
    IF Hits(agent, text) = 0 THEN 0
    ELSE Hits(agent, text) + (IF agent = "docker" /\ "dockerfile" \in text THEN 5 ELSE 0)

RouterAgents == {RouterOrder[i] : i \in 1..Len(RouterOrder)}
OrderOf(agent) == CHOOSE i \in 1..Len(RouterOrder) : RouterOrder[i] = agent

\* C15: classify returns the capability of highest score, the first in table
\* order among equals, with that score; with no match at all it returns
\* python with score 0 and the fallback reason.
C15_ClassifyPicksFirstHighest ==
    ppc = "done" =>
        IF \A a \in RouterAgents : Hits(a, pin.text) = 0
        THEN pout = Route("python", 0, Reason("fallback to python", 0))
        ELSE /\ pout.agent \in RouterAgents
             /\ pout.score = ExpectedScore(pout.agent, pin.text)
             /\ pout.reason.kind = "matched"
             /\ \A a \in RouterAgents :
                   /\ ExpectedScore(a, pin.text) <= pout.score
                   /\ OrderOf(a) < OrderOf(pout.agent) =>
                         ExpectedScore(a, pin.text) < pout.score

C15_Witness ==
    /\ ppc = "done"
    /\ pin.text = {"python", "bash", "shell", "pyproject.toml", "rust"}
    /\ pout.agent = "python"
    /\ pout.score = 2

\* C16: a text containing 'dockerfile' is classified docker, with a score
\* strictly above the score of every other capability.
C16_DockerfileAlwaysWins ==
    (ppc = "done" /\ "dockerfile" \in pin.text) =>
        /\ pout.agent = "docker"
        /\ \A a \in RouterAgents \ {"docker"} :
              ExpectedScore(a, pin.text) < pout.score

(***************************************************************************)
(* One call of LeadAgent.plan.                                             *)
(***************************************************************************)
\* an "agent" value that is a JSON list or object: it cannot be hashed
Unhashable == "<unhashable>"

\* what the planner backend may answer: text that json.loads rejects, an
\* object without "plan", or an object whose "plan" lists the given items
PlannerItems ==
    SeqsUpTo({PlanStep(a, "planned", Reason("planned", 0)) :
                 a \in {"docker", "python", "ghost", Unhashable}}, MaxPlan)
PlannerOutputs ==
    {[shape |-> "garbage", items |-> <<>>], [shape |-> "object without plan", items |-> <<>>]}
    \cup {[shape |-> "object", items |-> items] : items \in PlannerItems}

\* _parse_plan up to plan_items: the items the loop goes through
DecodePlanItems(raw) == IF raw.shape = "object" THEN raw.items ELSE <<>>

\* "if agent in AGENT_REGISTRY" raises TypeError on an unhashable value
ParsePlanRaises(items) == \E i \in 1..Len(items) : items[i].agent = Unhashable

PlanCallInit ==
    /\ ppc = "start"
    /\ pin \in [text : SUBSET TaskWords, raw : PlannerOutputs, planner_dummy : BOOLEAN]
    /\ pout = <<>>
    /\ MainIdle /\ AllocIdle /\ WriteIdle /\ VerIdle

\* LeadAgent.plan(task, workspace)
LeadAgentPlanCall ==
    /\ ppc = "start"
    /\ IF ~pin.planner_dummy /\ ParsePlanRaises(DecodePlanItems(pin.raw))
       THEN /\ ppc' = "raised"
            /\ UNCHANGED pout
       ELSE /\ ppc' = "done"
            /\ pout' = LeadAgentPlan(pin.text, DecodePlanItems(pin.raw), pin.planner_dummy)
    /\ UNCHANGED pin
    /\ UNCHANGED <<mainVars, allocVars, writeVars, verVars>>

SpecPlan == PlanCallInit /\ [][LeadAgentPlanCall]_vars

RouterStep(text) == PlanStep(Classify(text).agent, "task", Classify(text).reason)

\* C12: plan always returns; the plan is non-empty, names registered
\* capabilities only, keeps the registered entries of the backend's plan and
\* is the single Router step when the output does not decode or has no
\* registered entry.
C12_PlanAlwaysValid ==
    /\ ppc # "raised"
    /\ ppc = "done" =>
          LET valid == SelectSeq(pin.raw.items, LAMBDA item : item.agent \in AGENT_REGISTRY)
          IN /\ pout # <<>>
             /\ \A i \in 1..Len(pout) : pout[i].agent \in AGENT_REGISTRY
             /\ (~pin.planner_dummy /\ pin.raw.shape = "object" /\ valid # <<>>) => pout = valid
             /\ (pin.raw.shape # "object" \/ valid = <<>>) => pout = <<RouterStep(pin.text)>>

(***************************************************************************)
(* One call of _prune_plan.  The steps of the plan carry their position    *)
(* as reason, so that two steps of one capability differ.                  *)
(***************************************************************************)
PruneAgents == {"docker", "python", "bash", "verifier"}
PruneWords == {"dockerfile", "python", "bash", "project"}

TagPlan(agents) ==
    [i \in 1..Len(agents) |-> PlanStep(agents[i], "planned", Reason("planned", i))]

PruneInit ==
    /\ ppc = "start"
    /\ pin \in [text : SUBSET PruneWords,
                plan : {TagPlan(a) : a \in SeqsUpTo(PruneAgents, MaxPruneLen)}]
    /\ pout = <<>>
    /\ MainIdle /\ AllocIdle /\ WriteIdle /\ VerIdle

\* self._prune_plan(plan, task)
PrunePlanCall ==
    /\ ppc = "start"
    /\ pout' = PrunePlan(pin.plan, pin.text)
    /\ ppc' = "done"
    /\ UNCHANGED pin
    /\ UNCHANGED <<mainVars, allocVars, writeVars, verVars>>

SpecPrune == PruneInit /\ [][PrunePlanCall]_vars

HasAgent(p, agent) == \E i \in 1..Len(p) : p[i].agent = agent
IsFirstOfAgent(p, i) == \A j \in 1..(i - 1) : p[j].agent # p[i].agent
DockerCollapse(p, text) == Classify(text).agent = "docker" /\ HasAgent(p, "docker")

\* C13: outside the docker collapse the pruned plan keeps exactly the first
\* step of each capability, led by the step of the Router's top capability
\* when the plan has one, the others in their original order.
C13_PruneGeneralBranch ==
    (ppc = "done" /\ ~DockerCollapse(pin.plan, pin.text)) =>
        LET top == Classify(pin.text).agent
            pos(i) == pout[i].reason.k
            rest == IF HasAgent(pin.plan, top) THEN 2..Len(pout) ELSE 1..Len(pout)
        IN /\ \A i, j \in 1..Len(pout) : i # j => pout[i].agent # pout[j].agent
           /\ \A i \in 1..Len(pout) :
                 /\ pos(i) \in 1..Len(pin.plan)
                 /\ pin.plan[pos(i)] = pout[i]
                 /\ IsFirstOfAgent(pin.plan, pos(i))
           /\ \A k \in 1..Len(pin.plan) : HasAgent(pout, pin.plan[k].agent)
           /\ HasAgent(pin.plan, top) => pout[1].agent = top
           /\ \A i, j \in rest : i < j => pos(i) < pos(j)

C13_Witness ==
    /\ ppc = "done"
    /\ pin.text = {"python"}
    /\ pin.plan = TagPlan(<<"bash", "python", "bash">>)
    /\ pout = <<pin.plan[2], pin.plan[1]>>

(***************************************************************************)
(* Containerization precedence over a whole run.                           *)
(***************************************************************************)
\* the planner was asked, the Router's top choice is docker, and the plan it
\* returned is the Router fallback or holds a docker step
DockerPrecedenceCase ==
    /\ pc # "plan"
    /\ forced_agent = ""
    /\ Classify(task).agent = "docker"
    /\ planned = FallbackPlan(task) \/ HasAgent(planned, "docker")

OnlyDockerSteps(p) == \A i \in 1..Len(p) : p[i].agent = "docker"

FileStepIdx(st) == {i \in 1..Len(st) : st[i].step.reason.kind = "project file"}
SyntaxCheckIdx(st) ==
    {i \in 1..Len(st) : IsVerifier(st[i]) /\ st[i].step.reason.kind = "syntax check"}
RuntimeCheckIdx(st) ==
    {i \in 1..Len(st) :
        IsVerifier(st[i]) /\ st[i].step.reason.kind = "project runtime verification"}
ManifestDeclaresEntrypoint(st) ==
    \E i \in FileStepIdx(st) :
        /\ st[i].step.reason.k = 1
        /\ \A j \in FileStepIdx(st) : j > i => st[j].step.reason.k # 1
        /\ \E k \in 1..Len(st[i].result.text) : st[i].result.text[k].t = "[project.scripts]"

\* C17: a materialized project of n files has n file steps in list order,
\* the n files written in that order under the root, each file step
\* immediately followed by its one syntax-only verifier step, and exactly one
\* project-runtime verifier step after all file steps when the manifest
\* declares an entrypoint.
C17_MaterializerTraceShape ==
    project_summary # NoResult =>
        LET st == proj.steps
            n == Len(proj.files)
        IN /\ Cardinality(FileStepIdx(st)) = n
           /\ Len(proj.written) = n
           /\ \A k \in 1..n :
                 /\ proj.written[k] = Append(ProjectRoot, FilePath(proj.files[k]))
                 /\ \E i \in FileStepIdx(st) :
                       /\ Cardinality({j \in FileStepIdx(st) : j < i}) = k - 1
                       /\ st[i].step.reason.k = proj.files[k]
           /\ Cardinality(SyntaxCheckIdx(st)) = n
           /\ \A i \in FileStepIdx(st) : (i + 1) \in SyntaxCheckIdx(st)
           /\ ManifestDeclaresEntrypoint(st) =>
                 /\ Cardinality(RuntimeCheckIdx(st)) = 1
                 /\ \A r \in RuntimeCheckIdx(st) : \A i \in FileStepIdx(st) : i < r

\* ---------------------------------------------------------------------
\* Child processes of the verifier: spawn failures and timeouts
\* ---------------------------------------------------------------------

\* the ExecutionReport carries the text of a child that could not be spawned
ReportsSpawnFailure(report) ==
    \/ report.stderr \in SpawnFailures
    \/ report.compilation_error = "uv binary not found"

\* the ExecutionReport carries the text of a child that was timed out
ReportsTimeout(report) == report.stderr \in TimeoutTexts

\* C18: a child process that cannot be spawned (python, bash for the syntax
\* check and for the run, ruff, uv) never makes the verifier call raise; the
\* failure is kept as error text and the returned Verdict has ok = false.
C18_SpawnFailureNeverRaised ==
    /\ vpc # "raised"
    /\ (vpc = "done" /\ ReportsSpawnFailure(vreport)) => ~voutcome.ok

\* the part of C18 that concerns the children started under "except Exception"
C18_CaughtSpawnFailureNotOk ==
    (vpc = "done" /\ ReportsSpawnFailure(vreport)) => ~voutcome.ok

\* C19: every child process runs under a timeout, so no verifier call waits
\* forever on a child that never exits, and a timed-out child yields error
\* text and a Verdict with ok = false.
C19_EveryChildTimedOut ==
    /\ vpc # "hung"
    /\ (vpc = "done" /\ ReportsTimeout(vreport)) => ~voutcome.ok

\* the part of C19 that concerns the children started with timeout=
C19_TimedOutChildNotOk ==
    (vpc = "done" /\ ReportsTimeout(vreport)) => ~voutcome.ok

\* ---------------------------------------------------------------------
\* Refinement loop: the static pre-check and the verifier
\* ---------------------------------------------------------------------

\* the verifier StepExecutions one step of the loop appended to attempts
AppendedVerifierSteps ==
    {i \in (Len(attempts) + 1)..Len(attempts') : IsVerifier(attempts'[i])}

\* C20: an attempt of the refinement loop whose static pre-check fails does
\* not invoke the verifier: no verifier StepExecution is appended in it.
C20_FailedPreCheckSkipsVerifier ==
    [][(/\ pc = "refine"
        /\ attempt_idx <= DynamicMaxAttempts(task)
        /\ ~StaticPythonAudit(current_result.text))
           => AppendedVerifierSteps = {}]_vars

\* ---------------------------------------------------------------------
\* Refinement loop: what it returns
\* ---------------------------------------------------------------------

\* the loop has returned for the python step just dispatched; attempts is the
\* list it returned and the tail of the trace
LoopReturned ==
    /\ pc \in {"dispatch", "finalize", "done"}
    /\ step_idx > 1
    /\ step_idx - 1 <= Len(plan)
    /\ plan[step_idx - 1].agent = "python"
    /\ ~cfg.agent_dummy /\ ~cfg.planner_dummy

\* the verifier calls made since the trace had the given length
CallsSince(base) == {k \in 1..Len(verified) : verified[k].at > base}

\* C21: when the refinement loop returns, after an ok verdict or after the
\* budget is used up, the last step it produced is a verifier step run on
\* the current artifact, and the initial artifact and every regenerated one
\* were each handed to the verifier exactly once.
C21_LoopEndsVerifiedOnce ==
    LoopReturned =>
        LET base == Len(executions) - Len(attempts)
            artifacts == {executions[base].result.text} \cup
                         {attempts[i].result.text : i \in RegenIdx(attempts)}
        IN /\ attempts # <<>>
           /\ IsVerifier(executions[Len(executions)])
           /\ \E k \in CallsSince(base) :
                 /\ verified[k].at = Len(executions)
                 /\ verified[k].code = current_result.text
           /\ \A a \in artifacts :
                 Cardinality({k \in CallsSince(base) : verified[k].code = a}) = 1

\* the loop returned after using up its budget, the last verdict not ok
C21_Witness ==
    /\ LoopReturned
    /\ Cardinality(RegenIdx(attempts)) = DynamicMaxAttempts(task)
    /\ ~VerdictOk(attempts[Len(attempts)])

\* ---------------------------------------------------------------------
\* Second planning pass: _ensure_project_plan
\* ---------------------------------------------------------------------

\* the indexes of the project_architect steps of a plan
ArchitectIdx(p) == {i \in 1..Len(p) : p[i].agent = "project_architect"}

\* every step of p is a step of q
StepsRemain(p, q) == \A i \in 1..Len(p) : \E j \in 1..Len(q) : q[j] = p[i]

\* C22: when the task text matches a project keyword and the pruned plan has
\* no project_architect step, the dispatched plan holds exactly one such step
\* and still holds every pruned step; otherwise the dispatched plan is the
\* pruned plan.
C22_ProjectStepInjected ==
    (pc # "plan" /\ forced_agent = "") =>
        LET pruned == PrunePlan(planned, task) IN
        IF LooksLikeProjectRequest(task) /\ ArchitectIdx(pruned) = {}
        THEN /\ Cardinality(ArchitectIdx(plan)) = 1
             /\ StepsRemain(pruned, plan)
        ELSE plan = pruned

\* the part of C22 that holds: one project_architect step, or the plan unchanged
C22_OneArchitectOrUnchanged ==
    (pc # "plan" /\ forced_agent = "") =>
        LET pruned == PrunePlan(planned, task) IN
        IF LooksLikeProjectRequest(task) /\ ArchitectIdx(pruned) = {}
        THEN Cardinality(ArchitectIdx(plan)) = 1
        ELSE plan = pruned

\* ---------------------------------------------------------------------
\* Finalizer: the rules below the last-verifier rule
\* ---------------------------------------------------------------------

NoVerifierStep(s) == \A i \in 1..Len(s) : ~IsVerifier(s[i])
PythonIdx(s) == {i \in 1..Len(s) : s[i].step.agent = "python"}

\* the positions of the section headings of a concatenated text
HeadingIdx(text) == {i \in 1..Len(text) : text[i].t = "###"}

\* the k-th section of text is the one of step e: capability name, reason
\* and the stripped artifact text
SectionOf(text, k, e) ==
    \E h \in HeadingIdx(text) :
        /\ Cardinality({g \in HeadingIdx(text) : g < h}) = k - 1
        /\ h + 2 <= Len(text)
        /\ text[h + 1].t = e.step.agent
        /\ text[h + 2] = Tok("Reason:", e.step.reason.k)
        /\ LET body == StripText(e.result.text) IN
              /\ h + 3 + Len(body) <= Len(text) + 1
              /\ \A m \in 1..Len(body) : text[h + 3 + m] = body[m]

\* C23: without a project summary, a trace of one step yields that step's
\* artifact unchanged; a longer trace with no verifier step yields the text
\* of the last python step without a filename; a longer trace with neither
\* verifier nor python steps yields a concatenation with one labelled
\* section per step, in trace order.
C23_FinalizerFallThrough ==
    (pc = "done" /\ project_summary = NoResult) =>
        /\ Len(executions) = 1 => final = executions[1].result
        /\ (Len(executions) > 1 /\ NoVerifierStep(executions)) =>
              IF PythonIdx(executions) # {}
              THEN \E k \in PythonIdx(executions) :
                      /\ \A m \in PythonIdx(executions) : m <= k
                      /\ final = AgentResult(executions[k].result.text, NoFile)
              ELSE /\ final.filename = NoFile
                   /\ Cardinality(HeadingIdx(final.text)) = Len(executions)
                   /\ \A k \in 1..Len(executions) :
                         SectionOf(final.text, k, executions[k])

\* a finished run whose trace has two steps, none of them verifier or python
C23_Witness ==
    /\ pc = "done" /\ project_summary = NoResult
    /\ Len(executions) > 1
    /\ NoVerifierStep(executions)
    /\ PythonIdx(executions) = {}

\* ---------------------------------------------------------------------
\* Project file writing: paths that resolve to the project root itself
\* ---------------------------------------------------------------------

\* the target lies below the project root and is not the root
StrictlyInsideRoot(target) ==
    /\ Len(target) > Len(ProjectRoot)
    /\ SubSeq(target, 1, Len(ProjectRoot)) = ProjectRoot

\* C24: a write is let past the containment test only when its path resolves
\* strictly inside the project root; a path that resolves to the root itself
\* gets the containment error, like a path that resolves outside.
C24_RootItselfRejected ==
    wstatus \in {"written", "os_error", "escape_error"} =>
        /\ wstatus # "escape_error" => StrictlyInsideRoot(TargetOf(ProjectRoot, wpath))
        /\ TargetOf(ProjectRoot, wpath) = ProjectRoot => wstatus = "escape_error"

\* the part of C24 that holds: nothing outside the root is let past the test
C24_OutsideRejected ==
    wstatus \in {"written", "os_error"} =>
        \/ StrictlyInsideRoot(TargetOf(ProjectRoot, wpath))
        \/ TargetOf(ProjectRoot, wpath) = ProjectRoot

\* ---------------------------------------------------------------------
\* _execute_project_plan as a call: the plan text is an input, the base
\* directory may already hold directories named like the project
\* ---------------------------------------------------------------------

\* texts handed over as architect_output.text: empty, blank, prose, a JSON
\* array, objects without usable file entries, and objects with files
ProjectPlanTexts ==
    {<<>>, <<NL>>, <<Tok("prose", 0)>>,
     <<Tok("[", 0), Tok("file", 2), Tok("]", 0)>>,
     <<Tok("{", 0), Tok("file", 2)>>,
     <<Tok("{", 0), Tok("}", 0)>>,
     <<Tok("{", 0), Tok("reason", 0), Tok("}", 0)>>,
     <<Tok("{", 0), Tok("entry", 0), Tok("}", 0)>>}
    \cup
    {<<Tok("{", 0)>> \o [i \in 1..Len(fs) |-> Tok("file", fs[i])] \o <<Tok("}", 0), NL>> :
        fs \in SeqsUpTo(FileKinds, MaxFiles) \ {<<>>}}
    \cup
    {<<Tok("{", 0), Tok("entry", 0), Tok("file", k), Tok("}", 0)>> : k \in FileKinds}

ProjectCallInit ==
    /\ ppc = "start"
    /\ pin \in [text : ProjectPlanTexts, dirs : SUBSET (1..2)]
    /\ pout = [files |-> <<>>, i |-> 0, invoked |-> 0, root |-> 0]
    /\ dirs = pin.dirs
    /\ fsfiles = {}
    /\ apc = <<>> /\ aidx = <<>> /\ apre = <<>> /\ aret = <<>>
    /\ wpath = <<>> /\ wstatus = "idle" /\ fsdirs = {}
    /\ MainIdle /\ VerIdle

\* _execute_project_plan: the checks before _allocate_project_root
ProjectPlanParse ==
    /\ ppc = "start"
    /\ LET spec == ProjectFilesOf(pin.text) IN
       IF ~spec.valid \/ spec.files = <<>>
       THEN /\ ppc' = "raised"
            /\ UNCHANGED pout
       ELSE /\ ppc' = "allocate"
            /\ pout' = [pout EXCEPT !.files = spec.files]
    /\ UNCHANGED <<pin, dirs, fsfiles>>
    /\ UNCHANGED <<mainVars, apc, aidx, apre, aret, wpath, wstatus, fsdirs, verVars>>

\* _allocate_project_root: the first candidate that does not exist is made
ProjectPlanAllocate ==
    /\ ppc = "allocate"
    /\ \E k \in 1..MaxSuffix :
          /\ CandidateFree(dirs, k)
          /\ \A j \in 1..(k - 1) : ~CandidateFree(dirs, j)
          /\ dirs' = dirs \cup {k}
          /\ pout' = [pout EXCEPT !.root = k, !.i = 1]
    /\ ppc' = "files"
    /\ UNCHANGED <<pin, fsfiles>>
    /\ UNCHANGED <<mainVars, apc, aidx, apre, aret, wpath, wstatus, fsdirs, verVars>>

\* one iteration of the loop over spec.files: agent.run, _write_project_file
ProjectPlanFile ==
    /\ ppc = "files"
    /\ pout.i <= Len(pout.files)
    /\ LET target == TargetOf(ProjectRoot, FilePath(pout.files[pout.i])) IN
       IF ~RelativeTo(target, ProjectRoot)
       THEN /\ ppc' = "raised"
            /\ pout' = [pout EXCEPT !.invoked = pout.invoked + 1]
            /\ UNCHANGED fsfiles
       ELSE /\ fsfiles' = fsfiles \cup {target}
            /\ pout' = [pout EXCEPT !.invoked = pout.invoked + 1, !.i = pout.i + 1]
            /\ ppc' = IF pout.i = Len(pout.files) THEN "done" ELSE "files"
    /\ UNCHANGED <<pin, dirs>>
    /\ UNCHANGED <<mainVars, apc, aidx, apre, aret, wpath, wstatus, fsdirs, verVars>>

NextProject == ProjectPlanParse \/ ProjectPlanAllocate \/ ProjectPlanFile

SpecProject == ProjectCallInit /\ [][NextProject]_vars

\* the plan text is empty, is not a JSON object, or lists no file
UnusablePlan(text) ==
    LET t == StripText(text) IN
    \/ t = <<>>
    \/ t[1].t # "{" \/ t[Len(t)].t # "}"
    \/ \A i \in 1..Len(t) : t[i].t # "file"

\* C25: for a plan text that is empty, malformed or without files the call
\* raises with the base directory as it was: no project root made, no file
\* capability invoked, no file written.
C25_BadPlanRaisesFirst ==
    UnusablePlan(pin.text) =>
        /\ ppc \in {"start", "raised"}
        /\ dirs = pin.dirs
        /\ pout.root = 0
        /\ pout.invoked = 0
        /\ fsfiles = {}

C25_Witness ==
    /\ ppc = "raised"
    /\ UnusablePlan(pin.text)
    /\ StripText(pin.text) # <<>>
    /\ \E i \in 1..Len(pin.text) : pin.text[i].t = "file"

\* ---------------------------------------------------------------------
\* Dispatch loop: the verification call after a step
\* ---------------------------------------------------------------------

\* the trace steps of a capability that the dispatch loop has execution-checked
CheckedIdx(s) ==
    {i \in 1..Len(s) : /\ s[i].step.agent \in AGENT_REGISTRY
                       /\ s[i].step.agent \notin {"python", "verifier", "project_architect"}
                       /\ s[i].step.reason.kind # "project file"}

\* the steps of such capabilities, in order
CheckedSteps(p) ==
    SelectSeq(p, LAMBDA st : /\ st.agent \in AGENT_REGISTRY
                             /\ st.agent \notin {"python", "verifier", "project_architect"})

\* each dispatched step of these capabilities appears once, in plan order
NoRegeneration ==
    LET done == CheckedSteps(SubSeq(plan, 1, step_idx - 1))
        idx == CheckedIdx(executions)
    IN /\ Cardinality(idx) = Len(done)
       /\ \A i \in idx :
             executions[i].step = done[Cardinality({j \in idx : j <= i})]

\* C26: every dispatched step of a capability other than python, verifier
\* and project_architect is followed at once by a verifier step run on its
\* artifact, the only one run on it, and is never generated again.
C26_OneVerificationPerStep ==
    pc # "plan" =>
        /\ \A i \in CheckedIdx(executions) :
              /\ i + 1 <= Len(executions)
              /\ IsVerifier(executions[i + 1])
              /\ \E k \in 1..Len(verified) :
                    /\ verified[k].at = i + 1
                    /\ verified[k].code = executions[i].result.text
              /\ \A k \in 1..Len(verified) :
                    verified[k].code = executions[i].result.text => verified[k].at = i + 1
        /\ NoRegeneration

\* the part of C26 that holds: a verdict never makes the loop run a step again
C26_NoRegeneration == pc # "plan" => NoRegeneration

\* ---------------------------------------------------------------------
\* The generated judgment and the Verdict
\* ---------------------------------------------------------------------

\* the generated judgment of the call, as _build_outcome decodes it
JudgmentUnderstood == IsJsonObject(JsonCandidate(vin.raw))
JudgmentOk ==
    IF JudgmentUnderstood THEN LoadDict(JsonCandidate(vin.raw)).ok ELSE Missing

\* one of the deterministic overrides applies to the report
OverrideApplies ==
    \/ ~vreport.compilation_ok
    \/ /\ vreport.language \in {"python", "bash"} /\ vreport.mode # "syntax"
       /\ vreport.returncode # "0"
    \/ vreport.language = "project" /\ vreport.returncode # "0"
    \/ "gpu" \in vin.task /\ (vreport.stdout = "" \/ vreport.stderr = NvidiaMissing)

\* C27 as stated: a Verdict has ok = true only when the judgment is a JSON
\* object whose ok is true or one of the strings "true", "1", "yes", and no
\* override applies; otherwise ok = false.
C27_OkOnlyFromTrueOrYes ==
    vpc = "done" =>
        (voutcome.ok => (JudgmentUnderstood /\ JudgmentOk \in {1, 2} /\ ~OverrideApplies))

\* C27, amended: a Verdict has ok = true only when the judgment is a JSON
\* object whose ok is true, one of the strings "true", "1", "yes", or a
\* value of another type that bool() takes as true, and no override applies.
C27_OkOnlyFromTruthy ==
    vpc = "done" =>
        (voutcome.ok => (JudgmentUnderstood /\ JudgmentOk \in {1, 2, 4} /\ ~OverrideApplies))

\* a Verdict with ok = true that comes from the string "yes"
C27_Witness ==
    /\ vpc = "done"
    /\ voutcome.ok
    /\ JudgmentOk = 2

\* ---------------------------------------------------------------------
\* Language detection: the priority of the signals
\* ---------------------------------------------------------------------

\* what each kind of signal says on its own, "" when it says nothing
ByExtension(in) ==
    CASE in.suffix = ".py" -> "python"
      [] in.suffix = ".sh" -> "bash"
      [] in.suffix = ".toml" -> "text"
      [] OTHER -> ""
ByShebang(in) ==
    CASE in.shebang = "bash" -> "bash"
      [] in.shebang = "python" -> "python"
      [] OTHER -> ""
ByTaskKeyword(in) ==
    CASE "dockerfile" \in in.task -> "dockerfile"
      [] "bash" \in in.task -> "bash"
      [] "python" \in in.task -> "python"
      [] OTHER -> ""
ByCodeHeuristic(in) ==
    CASE "from" \in in.code -> "dockerfile"
      [] "def" \in in.code -> "python"
      [] "dollar1" \in in.code -> "bash"
      [] OTHER -> ""

\* the first signal that says something, in the order extension, shebang,
\* task keyword, code heuristic
ByPriority(in) ==
    IF ByExtension(in) # "" THEN ByExtension(in)
    ELSE IF ByShebang(in) # "" THEN ByShebang(in)
    ELSE IF ByTaskKeyword(in) # "" THEN ByTaskKeyword(in)
    ELSE IF ByCodeHeuristic(in) # "" THEN ByCodeHeuristic(in)
    ELSE "unknown"

\* C28: the detected language is the one named by the highest-priority
\* signal present, in the order extension, shebang, task keyword, code
\* heuristic, and "unknown" when there is no signal.
C28_DetectionByPriority ==
    (vpc \in {"executed", "done"} /\ vin.mode # "project_runtime") =>
        vreport.language = ByPriority(vin)

\* the part of C28 that holds: extension first, then shebang, and "unknown"
\* without any signal
C28_ExtensionThenShebang ==
    (vpc \in {"executed", "done"} /\ vin.mode # "project_runtime") =>
        /\ ByExtension(vin) # "" => vreport.language = ByExtension(vin)
        /\ (ByExtension(vin) = "" /\ ByShebang(vin) # "") =>
              vreport.language = ByShebang(vin)
        /\ (ByExtension(vin) = "" /\ ByShebang(vin) = "" /\ ByTaskKeyword(vin) = ""
              /\ ByCodeHeuristic(vin) = "") => vreport.language = "unknown"

\* ---------------------------------------------------------------------
\* The execution trace only grows
\* ---------------------------------------------------------------------

\* the StepExecutions of the run so far: the trace, and the steps a running
\* refinement loop or Materializer has collected and will hand over
TraceSoFar ==
    executions \o (IF pc \in {"refine", "refine_end"} THEN attempts
                   ELSE IF pc = "project_file" THEN proj.steps
                   ELSE <<>>)

IsPrefix(s, t) == Len(s) <= Len(t) /\ SubSeq(t, 1, Len(s)) = s

\* C29: every step of a run leaves the steps recorded so far as a prefix of
\* the steps recorded after it, and finalization does not touch the trace.
\* (A step that ends the run with an exception returns no trace; the trace
\* variable itself is still only extended.)
C29_TraceAppendOnly ==
    [][/\ IsPrefix(executions, executions')
       /\ pc' # "raised" => IsPrefix(TraceSoFar, TraceSoFar')
       /\ pc' = "done" => executions' = executions]_vars

\* a finished run whose trace grew in the dispatch loop and the refinement loop
C29_Witness ==
    /\ pc = "done"
    /\ RegenIdx(executions) # {}
    /\ \E i \in 1..Len(executions) : executions[i].step.agent = "docker"

\* ---------------------------------------------------------------------
\* What a verifier step has judged
\* ---------------------------------------------------------------------

\* the run has no project step
NoProjectStep ==
    /\ project_summary = NoResult
    /\ proj = NoProject
    /\ \A i \in 1..Len(executions) : executions[i].step.agent # "project_architect"

\* the verifier step at position i was run on the text of the nearest
\* non-verifier step before it
JudgedNearestArtifact(i) ==
    LET j == LastIndexIn({m \in 1..Len(executions) : ~IsVerifier(executions[m])}, i - 1)
    IN /\ j # 0
       /\ \E k \in 1..Len(verified) :
             /\ verified[k].at = i
             /\ verified[k].code = executions[j].result.text

\* C30: in a run without a project step every verifier step of the trace,
\* planned ones included, was run on the text of the nearest non-verifier
\* step before it.
C30_VerdictAboutNearestArtifact ==
    NoProjectStep =>
        \A i \in 1..Len(executions) :
            IsVerifier(executions[i]) => JudgedNearestArtifact(i)

\* the part of C30 that holds: the verifier steps the orchestrator adds itself
C30_OwnVerifierSteps ==
    NoProjectStep =>
        \A i \in 1..Len(executions) :
            (/\ IsVerifier(executions[i])
             /\ executions[i].step.reason.kind \in
                   {"verification after agent", "code compliance check",
                    "final verification"})
                => JudgedNearestArtifact(i)

====
